---- MODULE Spec2Model ----
(***************************************************************************)
(* Model of the Anki LLM Field Generator add-on: the multi-provider HTTP   *)
(* client (src/llm_client.py) and the caller path that reaches it          *)
(* (src/card_processor.py).                                                *)
(*                                                                         *)
(* Text is modelled as a sequence of tokens (a token is one character or   *)
(* one word), JSON values as tagged records, and a Python evaluation as    *)
(* either a value or the exception class it raises.                        *)
(***************************************************************************)
EXTENDS Integers, Sequences, FiniteSets, TLC

\* ------------------------------------------------------------------ bounds

\* number of target fields of the note-type mapping used by the caller path
MaxTargets == 1

\* longest run of whitespace around the text of a response
MaxPad == 1

\* ------------------------------------------------------------------ text

Whitespace == {" ", "\n", "\t"}

SetMin(S) == CHOOSE x \in S : \A y \in S : x <= y
SetMax(S) == CHOOSE x \in S : \A y \in S : y <= x

\* str.lstrip(): used only as the faulty variant of strip
lstrip_only(s) ==
    LET idx == {i \in 1..Len(s) : s[i] \notin Whitespace}
    IN  IF idx = {} THEN <<>> ELSE SubSeq(s, SetMin(idx), Len(s))

\* str.strip(): drop leading and trailing whitespace
strip(s) ==
    LET idx == {i \in 1..Len(s) : s[i] \notin Whitespace}
    IN  IF idx = {} THEN <<>> ELSE SubSeq(s, SetMin(idx), SetMax(idx))

\* str.rstrip("/") on a URL given as tokens
RECURSIVE rstrip_slash(_)
rstrip_slash(u) ==
    IF u # <<>> /\ u[Len(u)] = "/" THEN rstrip_slash(SubSeq(u, 1, Len(u) - 1))
    ELSE u

\* ------------------------------------------------------------------ JSON

JNull    == [t |-> "null"]
JStr(s)  == [t |-> "str",  v |-> s]
JNum(n)  == [t |-> "num",  v |-> n]
JList(l) == [t |-> "list", v |-> l]
\* an object is a sequence of key/value members
JObj(m)  == [t |-> "obj",  v |-> m]
Member(k, x) == [k |-> k, x |-> x]

HasKey(o, key) == \E i \in 1..Len(o.v) : o.v[i].k = key
Lookup(o, key) == o.v[CHOOSE i \in 1..Len(o.v) : o.v[i].k = key].x

\* ------------------------------------------------------------------ Python evaluation

Ok(x)    == [ok |-> TRUE,  v |-> x]
Raise(e) == [ok |-> FALSE, exc |-> e]

\* x[key] for a string key
GetItem(r, key) ==
    IF ~r.ok THEN r
    ELSE IF r.v.t = "obj"
         THEN IF HasKey(r.v, key) THEN Ok(Lookup(r.v, key)) ELSE Raise("KeyError")
         ELSE Raise("TypeError")

\* x[0]
GetItem0(r) ==
    IF ~r.ok THEN r
    ELSE CASE r.v.t = "list" -> IF Len(r.v.v) > 0 THEN Ok(r.v.v[1]) ELSE Raise("IndexError")
           [] r.v.t = "str"  -> IF Len(r.v.v) > 0 THEN Ok(JStr(<<r.v.v[1]>>)) ELSE Raise("IndexError")
           [] r.v.t = "obj"  -> Raise("KeyError")
           [] OTHER          -> Raise("TypeError")

\* x.strip()
StripOf(r) ==
    IF ~r.ok THEN r
    ELSE IF r.v.t = "str" THEN Ok(JStr(strip(r.v.v))) ELSE Raise("AttributeError")

\* x.get(key, [])
DictGet(r, key) ==
    IF ~r.ok THEN r
    ELSE IF r.v.t = "obj"
         THEN IF HasKey(r.v, key) THEN Ok(Lookup(r.v, key)) ELSE Ok(JList(<<>>))
         ELSE Raise("AttributeError")

\* faulty variant of bool(x): every value counts as non-empty
TruthyAlways(x) == TRUE

\* bool(x)
Truthy(x) ==
    CASE x.t = "null" -> FALSE
      [] x.t = "num"  -> x.v # 0
      [] OTHER        -> Len(x.v) > 0

\* key in x
Contains(key, x) ==
    CASE x.t = "obj"  -> Ok(HasKey(x, key))
      [] x.t = "list" -> Ok(\E i \in 1..Len(x.v) : x.v[i] = JStr(<<key>>))
      [] x.t = "str"  -> Ok(\E i \in 1..Len(x.v) : x.v[i] = key)
      [] OTHER        -> Raise("TypeError")

\* len(x)
LenOf(x) ==
    CASE x.t \in {"obj", "list", "str"} -> Ok(Len(x.v))
      [] OTHER -> Raise("TypeError")

\* exception classes with their base classes (method resolution order)
Bases(e) ==
    CASE e = "HTTPError"       -> {"HTTPError", "URLError", "OSError", "Exception"}
      [] e = "URLError"        -> {"URLError", "OSError", "Exception"}
      [] e = "TimeoutError"    -> {"TimeoutError", "OSError", "Exception"}
      [] e = "JSONDecodeError" -> {"JSONDecodeError", "ValueError", "Exception"}
      [] e = "KeyError"        -> {"KeyError", "LookupError", "Exception"}
      [] e = "IndexError"      -> {"IndexError", "LookupError", "Exception"}
      [] OTHER                 -> {e, "Exception"}

\* does the clause `except (c1, c2, ...)` catch an exception of class e
Catches(clause, e) == clause \cap Bases(e) # {}

\* ------------------------------------------------------------------ configuration values

ApiModes == {"ollama", "groq", "gemini", "openrouter"}

\* providers whose generation and probe require an API key
HostedModes == {"groq", "gemini", "openrouter"}

\* base URLs a user can configure: empty, the default, one with a trailing
\* slash, and a host name typed without a scheme
BaseUrls == {<<>>, <<"http://localhost:11434">>, <<"http://remote:8080", "/">>, <<"remote">>}

ApiKeys == {"", "sk-secret"}

SystemPrompts == {<<>>, <<"Be brief.">>}

ThePrompt == <<"Define X">>

TheModel == "llama3.2"

DefaultBaseUrl == <<"http://localhost:11434">>
DefaultMaxTokens == 500
DefaultTimeout == 60
ProbeMaxTokens == 5

API_ENDPOINTS ==
    [ollama     |-> <<"/api/chat">>,
     groq       |-> <<"https://api.groq.com/openai/v1/chat/completions">>,
     gemini     |-> <<"https://generativelanguage.googleapis.com/v1beta/models">>,
     openrouter |-> <<"https://openrouter.ai/api/v1/chat/completions">>]

OpenRouterAuthUrl == <<"https://openrouter.ai/api/v1/auth/key">>

\* ------------------------------------------------------------------ urllib

\* urllib.request.Request(url): the constructor raises ValueError
\* ("unknown url type") when the URL has no scheme
SchemeTokens ==
    {"http://localhost:11434", "http://remote:8080", OpenRouterAuthUrl[1]}
        \cup {API_ENDPOINTS[m][1] : m \in HostedModes}

HasScheme(url) == url # <<>> /\ url[1] \in SchemeTokens

NoData == [nodata |-> TRUE]

Request(url, data, headers, method) ==
    [method |-> method, url |-> url, headers |-> headers, data |-> data]

\* what one urlopen(...) + response.read() + json.loads(...) can come to
HttpOk(body)                 == [kind |-> "ok", body |-> body]
HttpNonJson                  == [kind |-> "non_json"]
HttpError(code, reason, body) == [kind |-> "http_error", code |-> code, reason |-> reason, body |-> body]
UrlError(reason)             == [kind |-> "url_error", reason |-> reason]
SocketTimeout                == [kind |-> "timeout"]

\* the exception class an exchange raises, "" when it raises none
ExcOf(outcome, reads_body) ==
    CASE outcome.kind = "http_error" -> "HTTPError"
      [] outcome.kind = "url_error"  -> "URLError"
      [] outcome.kind = "timeout"    -> "TimeoutError"
      [] outcome.kind = "non_json"   -> IF reads_body THEN "JSONDecodeError" ELSE ""
      [] OTHER                       -> ""

\* str(e) of an exception, as one token
StrExc(e) == <<"str(e) of " , e>>

\* f"{e.code}"
CodeStr(c) ==
    CASE c = 401 -> "401" [] c = 403 -> "403" [] c = 404 -> "404"
      [] c = 429 -> "429" [] c = 500 -> "500" [] OTHER -> "???"

\* index of the first except clause that catches e, 0 when none does
FirstCatch(clauses, e) ==
    LET hit == {i \in 1..Len(clauses) : Catches(clauses[i], e)}
    IN  IF hit = {} THEN 0 ELSE SetMin(hit)

\* ------------------------------------------------------------------ results of a call

NoResult          == [kind |-> "none"]
Text(s)           == [kind |-> "text", text |-> s]
Raised(exc, msg)  == [kind |-> "raise", exc |-> exc, msg |-> msg]
Pair(ok, msg)     == [kind |-> "pair", ok |-> ok, msg |-> msg]
\* the call is blocked in urlopen on request req
Pending(req, k)   == [kind |-> "urlopen", req |-> req, k |-> k]

\* json.dumps(response_data, indent=2), as one token
JsonDumps(x) == <<"<json>">>

\* ------------------------------------------------------------------ LLMClient

\* faulty variant: an empty base_url is kept empty for the local provider
LLMClientNoDefault(base_url, model, api_key, api_mode) ==
    [base_url    |-> IF base_url # <<>> THEN rstrip_slash(base_url) ELSE <<>>,
     model       |-> model,
     temperature |-> "0.7",
     max_tokens  |-> DefaultMaxTokens,
     api_key     |-> api_key,
     timeout     |-> DefaultTimeout,
     api_mode    |-> api_mode]

\* LLMClient.__init__
LLMClient(base_url, model, api_key, api_mode) ==
    [base_url    |-> IF api_mode = "ollama"
                     THEN rstrip_slash(IF base_url # <<>> THEN base_url ELSE DefaultBaseUrl)
                     ELSE IF base_url # <<>> THEN rstrip_slash(base_url) ELSE <<>>,
     model       |-> model,
     temperature |-> "0.7",
     max_tokens  |-> DefaultMaxTokens,
     api_key     |-> api_key,
     timeout     |-> DefaultTimeout,
     api_mode    |-> api_mode]

NoClient == [none |-> TRUE]

\* faulty variant: the system message is appended unconditionally
ChatMessagesAlways(prompt, system_prompt) ==
    <<[role |-> "system", content |-> system_prompt], [role |-> "user", content |-> prompt]>>

\* the messages list of the chat-style builders
ChatMessages(prompt, system_prompt) ==
    (IF system_prompt # <<>> THEN <<[role |-> "system", content |-> system_prompt]>> ELSE <<>>)
        \o <<[role |-> "user", content |-> prompt]>>

\* the request of _post: the Request constructor runs outside the try block
PostRequest(self, url, payload, use_auth) ==
    LET headers == {<<"Content-Type", <<"application/json">>>>}
                     \cup (IF use_auth /\ self.api_key # ""
                           THEN {<<"Authorization", <<"Bearer ", self.api_key>>>>} ELSE {})
    IN  IF HasScheme(url) THEN Pending(Request(url, payload, headers, "POST"), "post")
        ELSE Raised("ValueError", <<"unknown url type: ">> \o url)

\* faulty variant: the key is passed as a query parameter of the URL
PostGeminiRequestKeyInUrl(self, url, payload) ==
    LET headers == {<<"Content-Type", <<"application/json">>>>}
        keyed == url \o <<"?key=", self.api_key>>
    IN  IF HasScheme(url) THEN Pending(Request(keyed, payload, headers, "POST"), "post_gemini")
        ELSE Raised("ValueError", <<"unknown url type: ">> \o url)

\* the request of _post_gemini
PostGeminiRequest(self, url, payload) ==
    LET headers == {<<"Content-Type", <<"application/json">>>>,
                    <<"X-Goog-Api-Key", <<self.api_key>>>>}
    IN  IF HasScheme(url) THEN Pending(Request(url, payload, headers, "POST"), "post_gemini")
        ELSE Raised("ValueError", <<"unknown url type: ">> \o url)

\* the request of _post_openrouter
PostOpenrouterRequest(self, url, payload) ==
    LET headers == {<<"Content-Type", <<"application/json">>>>,
                    <<"Authorization", <<"Bearer ", self.api_key>>>>,
                    <<"HTTP-Referer", <<"https://github.com/anki-llm-fill">>>>,
                    <<"X-Title", <<"Anki LLM Field Generator">>>>}
    IN  IF HasScheme(url) THEN Pending(Request(url, payload, headers, "POST"), "post_openrouter")
        ELSE Raised("ValueError", <<"unknown url type: ">> \o url)

\* LLMClient.generate, up to the urlopen of _post
generate(self, prompt, system_prompt) ==
    LET payload == [model    |-> self.model,
                    messages |-> ChatMessages(prompt, system_prompt),
                    stream   |-> FALSE,
                    options  |-> [temperature |-> self.temperature,
                                  num_predict |-> self.max_tokens]]
        url == self.base_url \o <<"/api/chat">>
    IN  PostRequest(self, url, payload, FALSE)

\* faulty variant: the request is built and sent before the key is looked at
generate_groq_unchecked(self, prompt, system_prompt) ==
    LET payload == [model       |-> self.model,
                    messages    |-> ChatMessages(prompt, system_prompt),
                    temperature |-> self.temperature,
                    max_tokens  |-> self.max_tokens]
    IN  PostRequest(self, API_ENDPOINTS["groq"], payload, TRUE)

\* LLMClient.generate_groq, up to the urlopen of _post
generate_groq(self, prompt, system_prompt) ==
    IF self.api_key = ""
    THEN Raised("LLMError", <<"Groq API key is missing.\n\n",
                              "Get your API key from: https://console.groq.com/keys">>)
    ELSE LET payload == [model       |-> self.model,
                         messages    |-> ChatMessages(prompt, system_prompt),
                         temperature |-> self.temperature,
                         max_tokens  |-> self.max_tokens]
         IN  PostRequest(self, API_ENDPOINTS["groq"], payload, TRUE)

\* LLMClient.generate_gemini, up to the urlopen of _post_gemini
generate_gemini(self, prompt, system_prompt) ==
    IF self.api_key = ""
    THEN Raised("LLMError", <<"Gemini API key is missing.\n\n",
                              "Get your API key from: https://aistudio.google.com/apikey">>)
    ELSE LET contents == <<[role |-> "user", parts |-> <<[text |-> prompt]>>]>>
             config   == [temperature |-> self.temperature, maxOutputTokens |-> self.max_tokens]
             payload  == IF system_prompt # <<>>
                         THEN [contents |-> contents, generationConfig |-> config,
                               systemInstruction |-> [role  |-> "system",
                                                      parts |-> <<[text |-> system_prompt]>>]]
                         ELSE [contents |-> contents, generationConfig |-> config]
             url == API_ENDPOINTS["gemini"] \o <<"/", self.model, ":generateContent">>
         IN  PostGeminiRequest(self, url, payload)

\* LLMClient.generate_openrouter, up to the urlopen of _post_openrouter
generate_openrouter(self, prompt, system_prompt) ==
    IF self.api_key = ""
    THEN Raised("LLMError", <<"OpenRouter API key is missing.\n\n",
                              "Get your API key from: https://openrouter.ai/keys">>)
    ELSE LET payload == [model       |-> self.model,
                         messages    |-> ChatMessages(prompt, system_prompt),
                         temperature |-> self.temperature,
                         max_tokens  |-> self.max_tokens]
         IN  PostOpenrouterRequest(self, API_ENDPOINTS["openrouter"], payload)

\* ------------------------------------------------------------------ responses to generation

\* faulty variant: only HTTP errors are turned into LLMError
PostExceptHttpOnly == << {"HTTPError"} >>

\* the except clauses after the urlopen of _post, _post_gemini, _post_openrouter
PostExcept == << {"HTTPError"}, {"URLError"}, {"Exception"} >>

\* the LLMError raised for a failed exchange; tail is the text that follows
\* the reason of a URLError
PostFailure(outcome, tail) ==
    LET e == ExcOf(outcome, TRUE)
        i == FirstCatch(PostExcept, e)
    IN  CASE i = 1 -> Raised("LLMError", <<"HTTP ", CodeStr(outcome.code), ": ">>
                                          \o outcome.reason \o <<"\n">> \o outcome.body)
          [] i = 2 -> Raised("LLMError", <<"Connection failed: ">> \o outcome.reason \o tail)
          [] i = 3 -> Raised("LLMError", <<"Request failed: ">> \o StrExc(e))
          [] OTHER -> Raised(e, StrExc(e))

\* the classes caught around the extraction of the text
ExtractExcept == {"KeyError", "IndexError"}

\* the result of the try block that extracts the text from response_data
Extracted(r, response_data) ==
    IF r.ok THEN Text(r.v.v)
    ELSE IF Catches(ExtractExcept, r.exc)
         THEN Raised("LLMError", <<"Unexpected response format: ">> \o JsonDumps(response_data))
         ELSE Raised(r.exc, StrExc(r.exc))

\* response_data["message"]["content"].strip()
OllamaText(response_data) ==
    StripOf(GetItem(GetItem(Ok(response_data), "message"), "content"))

\* response_data["choices"][0]["message"]["content"].strip()
ChoicesText(response_data) ==
    StripOf(GetItem(GetItem(GetItem0(GetItem(Ok(response_data), "choices")), "message"), "content"))

\* candidates[0]["content"]["parts"][0]["text"].strip()
GeminiText(candidates) ==
    StripOf(GetItem(GetItem0(GetItem(GetItem(GetItem0(candidates), "content"), "parts")), "text"))

\* faulty variant: a failed exchange is sent again
post_retry(self, url, outcome, parse_ollama) ==
    IF ExcOf(outcome, TRUE) # ""
    THEN Pending(Request(url, NoData, {<<"Content-Type", <<"application/json">>>>}, "POST"), "post")
    ELSE Extracted(IF parse_ollama THEN OllamaText(outcome.body) ELSE ChoicesText(outcome.body),
                   outcome.body)

\* _post, from the return of urlopen on
post(self, url, outcome, parse_ollama) ==
    IF ExcOf(outcome, TRUE) # "" THEN PostFailure(outcome, <<"\nURL: ">> \o url)
    ELSE Extracted(IF parse_ollama THEN OllamaText(outcome.body) ELSE ChoicesText(outcome.body),
                   outcome.body)

\* _post_gemini, from the return of urlopen on
post_gemini(self, url, outcome) ==
    IF ExcOf(outcome, TRUE) # ""
    THEN PostFailure(outcome, <<"\n", "Check your API key and model name.">>)
    ELSE LET candidates == DictGet(Ok(outcome.body), "candidates")
         IN  IF ~candidates.ok THEN Extracted(candidates, outcome.body)
             ELSE IF ~Truthy(candidates.v)
                  THEN Raised("LLMError", <<"No candidates in Gemini response">>)
                  ELSE Extracted(GeminiText(candidates), outcome.body)

\* _post_openrouter, from the return of urlopen on
post_openrouter(self, url, outcome) ==
    IF ExcOf(outcome, TRUE) # ""
    THEN PostFailure(outcome, <<"\n", "Check your OpenRouter API key.">>)
    ELSE Extracted(ChoicesText(outcome.body), outcome.body)

\* ------------------------------------------------------------------ test_connection

\* str.lower() of one token
LowerTok(t) ==
    CASE t = "Connection "     -> "connection "
      [] t = "Gateway "        -> "gateway "
      [] t = "Timeout"         -> "timeout"
      [] t = "Authentication"  -> "authentication"
      [] t = "Permission"      -> "permission"
      [] t = "Cloudflare"      -> "cloudflare"
      [] t = "Privacy"         -> "privacy"
      [] OTHER                 -> t

\* str.lower()
Lower(s) == [i \in 1..Len(s) |-> LowerTok(s[i])]

\* word in s, for a word that is one token
InText(word, s) == \E i \in 1..Len(s) : s[i] = word

ProbeMessages == <<[role |-> "user", content |-> "Hi"]>>

\* the except clauses of _test_ollama, in source order
TestOllamaExcept == << {"URLError"}, {"HTTPError"}, {"Exception"} >>

\* faulty variant: the catch-all clause is missing
TestExceptNoCatchAll == << {"HTTPError"}, {"URLError"} >>

\* the except clauses of _test_groq, _test_gemini and _test_openrouter
TestHostedExcept == << {"HTTPError"}, {"URLError"}, {"Exception"} >>

\* the handlers of _test_ollama for exception e of exchange outcome
test_ollama_except(self, e, outcome) ==
    LET i == FirstCatch(TestOllamaExcept, e)
        error_msg == <<"Cannot connect to Ollama at ">> \o self.base_url
                        \o <<"\nError: ">> \o outcome.reason
        low == Lower(outcome.reason)
    IN  CASE i = 1 ->
               IF InText("timed out", low) \/ InText("timeout", low)
               THEN Pair(FALSE, error_msg \o <<"\n\nTroubleshooting:\n",
                                               "1. Make sure Ollama is running\n",
                                               "   -> Run: ollama serve\n",
                                               "2. Check if model is pulled\n",
                                               "   -> Run: ollama pull ", self.model, "\n",
                                               "3. Try http://127.0.0.1:11434 instead of localhost\n",
                                               "4. Check Windows Firewall settings">>)
               ELSE IF InText("refused", low)
               THEN Pair(FALSE, error_msg \o <<"\n\nTroubleshooting:\n",
                                               "1. Ollama server is not running\n",
                                               "   -> Run: ollama serve\n",
                                               "2. Check if Ollama is installed\n",
                                               "   -> Download from: https://ollama.ai">>)
               ELSE Pair(FALSE, error_msg)
          [] i = 2 -> Pair(FALSE, <<"HTTP ", CodeStr(outcome.code), ": ">> \o outcome.reason)
          [] i = 3 -> Pair(FALSE, <<"Error: ">> \o StrExc(e))
          [] OTHER -> Raised(e, StrExc(e))

\* _test_ollama, up to the first urlopen
test_ollama(self) ==
    LET url == self.base_url \o <<"/api/tags">>
    IN  IF HasScheme(url) THEN Pending(Request(url, NoData, {}, "GET"), "test_ollama_tags")
        ELSE test_ollama_except(self, "ValueError", NoData)

\* _test_ollama, from the return of the GET on: the body is not read
test_ollama_tags(self, outcome) ==
    IF ExcOf(outcome, FALSE) # "" THEN test_ollama_except(self, ExcOf(outcome, FALSE), outcome)
    ELSE LET payload == [model |-> self.model, messages |-> ProbeMessages,
                         stream |-> FALSE, max_tokens |-> ProbeMaxTokens]
             url == self.base_url \o <<"/api/chat">>
         IN  IF HasScheme(url) THEN Pending(Request(url, payload, {}, "POST"), "test_ollama_chat")
             ELSE test_ollama_except(self, "ValueError", NoData)

\* _test_ollama, from the return of the POST on
test_ollama_chat(self, outcome) ==
    IF ExcOf(outcome, TRUE) # "" THEN test_ollama_except(self, ExcOf(outcome, TRUE), outcome)
    ELSE LET has == Contains("message", outcome.body)
         IN  IF ~has.ok THEN test_ollama_except(self, has.exc, outcome)
             ELSE IF has.v
                  THEN Pair(TRUE, <<"Ollama connected. Model '", self.model, "' is working.">>)
                  ELSE Pair(FALSE, <<"Unexpected response from Ollama">>)

\* faulty variant: the 403 markers are looked for in another order
test_groq_http_error_reordered(self, outcome) ==
    LET body == outcome.body
        error_body == Lower(body)
    IN  CASE outcome.code = 401 -> Pair(FALSE, <<"Invalid Groq API key.\n\n">>)
          [] outcome.code = 403 ->
               IF InText("1010", body) \/ InText("cloudflare", error_body)
               THEN Pair(FALSE, <<"Groq API Error (403 - Code 1010)\n\n">> \o body)
               ELSE IF InText("permission", error_body)
               THEN Pair(FALSE, <<"API key does not have permission.\n\n">>)
               ELSE IF InText("invalid_api_key", error_body) \/ InText("authentication", error_body)
               THEN Pair(FALSE, <<"Invalid Groq API key.\n\n">>)
               ELSE Pair(FALSE, <<"Groq API Error (403)\n\n">> \o body)
          [] outcome.code = 404 -> Pair(FALSE, <<"Model '", self.model, "' not found.\n\n">>)
          [] outcome.code = 429 -> Pair(FALSE, <<"Rate limit exceeded.\n\n">>)
          [] OTHER -> Pair(FALSE, <<"HTTP ", CodeStr(outcome.code), ": ">>
                                   \o outcome.reason \o <<"\n">> \o body)

\* the HTTPError handler of _test_groq
test_groq_http_error(self, outcome) ==
    LET body == outcome.body
        error_body == Lower(body)
        invalid_key == <<"Invalid Groq API key.\n\n",
                         "Please check your API key at: https://console.groq.com/keys">>
    IN  CASE outcome.code = 401 -> Pair(FALSE, invalid_key)
          [] outcome.code = 403 ->
               IF InText("invalid_api_key", error_body) \/ InText("authentication", error_body)
               THEN Pair(FALSE, invalid_key)
               ELSE IF InText("permission", error_body)
               THEN Pair(FALSE, <<"API key does not have permission.\n\n",
                                  "Make sure your API key is active and has access to the model.">>)
               ELSE IF InText("1010", body) \/ InText("cloudflare", error_body)
               THEN Pair(FALSE, <<"Groq API Error (403 - Code 1010)\n\n",
                                  "This is a Cloudflare protection error. Possible causes:\n\n",
                                  "1. Your Groq account needs verification\n",
                                  "   -> Check your email for verification link\n",
                                  "   -> Complete phone verification at https://console.groq.com\n\n",
                                  "2. API key not yet activated\n",
                                  "   -> Wait 5-10 minutes after creating the key\n\n",
                                  "3. Your IP/location is rate-limited\n",
                                  "   -> Try again later or use a different network\n\n",
                                  "4. Account requires approval\n",
                                  "   -> Contact Groq support: https://console.groq.com/support\n\n",
                                  "Alternative: Use OpenRouter or Gemini API instead.\n",
                                  "\nResponse: ">> \o body)
               ELSE Pair(FALSE, <<"Groq API Error (403)\n\n", "Possible causes:\n",
                                  "1. API key is invalid or expired\n",
                                  "2. API key is not activated (wait 5-10 min)\n",
                                  "3. Account needs verification\n",
                                  "4. Model '", self.model, "' is not available for your account\n\n",
                                  "Check your API key at: https://console.groq.com/keys\n\n",
                                  "Response: ">> \o body)
          [] outcome.code = 404 ->
               Pair(FALSE, <<"Model '", self.model, "' not found.\n\n",
                             "Check available models at: https://console.groq.com/docs/models">>)
          [] outcome.code = 429 ->
               Pair(FALSE, <<"Rate limit exceeded.\n\n", "Please wait and try again later.">>)
          [] OTHER -> Pair(FALSE, <<"HTTP ", CodeStr(outcome.code), ": ">>
                                   \o outcome.reason \o <<"\n">> \o body)

\* the HTTPError handler of _test_gemini
test_gemini_http_error(self, outcome) ==
    CASE outcome.code = 403 -> Pair(FALSE, <<"Invalid API key or model name">>)
      [] outcome.code = 404 -> Pair(FALSE, <<"Model '", self.model, "' not found">>)
      [] OTHER -> Pair(FALSE, <<"HTTP ", CodeStr(outcome.code), ": ">>
                               \o outcome.reason \o <<"\n">> \o outcome.body)

\* the HTTPError handler of _test_openrouter
test_openrouter_http_error(self, outcome) ==
    LET low == Lower(outcome.body)
    IN  IF outcome.code = 401 THEN Pair(FALSE, <<"Invalid OpenRouter API key">>)
        ELSE IF outcome.code = 404 /\ (InText("privacy", low) \/ InText("data policy", low))
        THEN Pair(FALSE, <<"OpenRouter Privacy Settings Required\n\n",
                           "You need to configure privacy settings before using free models.\n\n",
                           "Steps to fix:\n",
                           "1. Go to: https://openrouter.ai/settings/privacy\n",
                           "2. Enable these options:\n",
                           "   Enable free endpoints that may train on inputs\n",
                           "   Enable free endpoints that may publish prompts">>)
        ELSE Pair(FALSE, <<"HTTP ", CodeStr(outcome.code), ": ">>
                          \o outcome.reason \o <<"\n">> \o outcome.body)

\* the handlers of a hosted provider's probe for exception e of exchange outcome
test_hosted_except(self, mode, e, outcome) ==
    LET i == FirstCatch(TestHostedExcept, e)
    IN  CASE i = 1 -> CASE mode = "groq"   -> test_groq_http_error(self, outcome)
                        [] mode = "gemini" -> test_gemini_http_error(self, outcome)
                        [] OTHER           -> test_openrouter_http_error(self, outcome)
          [] i = 2 -> Pair(FALSE, <<"Connection failed: ">> \o outcome.reason)
          [] i = 3 -> Pair(FALSE, <<"Error: ">> \o StrExc(e))
          [] OTHER -> Raised(e, StrExc(e))

\* _test_groq, up to the urlopen
test_groq(self) ==
    IF self.api_key = ""
    THEN Pair(FALSE, <<"Groq API key is missing.\n\n",
                       "Get your API key from: https://console.groq.com/keys">>)
    ELSE LET payload == [model |-> self.model, messages |-> ProbeMessages,
                         max_tokens |-> ProbeMaxTokens]
             headers == {<<"Content-Type", <<"application/json">>>>,
                         <<"Authorization", <<"Bearer ", self.api_key>>>>}
         IN  Pending(Request(API_ENDPOINTS["groq"], payload, headers, "POST"), "test_groq_chat")

\* _test_groq, from the return of urlopen on
test_groq_chat(self, outcome) ==
    IF ExcOf(outcome, TRUE) # "" THEN test_hosted_except(self, "groq", ExcOf(outcome, TRUE), outcome)
    ELSE LET has == Contains("choices", outcome.body)
         IN  IF ~has.ok THEN test_hosted_except(self, "groq", has.exc, outcome)
             ELSE IF has.v
                  THEN Pair(TRUE, <<"Groq connected. Model '", self.model, "' is working.">>)
                  ELSE Pair(FALSE, <<"Unexpected response from Groq">>)

\* _test_gemini, up to the urlopen
test_gemini(self) ==
    IF self.api_key = ""
    THEN Pair(FALSE, <<"Gemini API key is missing.\n\n",
                       "Get your API key from: https://aistudio.google.com/apikey">>)
    ELSE LET payload == [contents |-> <<[role |-> "user", parts |-> <<[text |-> "Hi"]>>]>>,
                         generationConfig |-> [maxOutputTokens |-> ProbeMaxTokens]]
             url == API_ENDPOINTS["gemini"] \o <<"/", self.model, ":generateContent">>
             headers == {<<"Content-Type", <<"application/json">>>>,
                         <<"X-Goog-Api-Key", <<self.api_key>>>>}
         IN  Pending(Request(url, payload, headers, "POST"), "test_gemini_chat")

\* _test_gemini, from the return of urlopen on
test_gemini_chat(self, outcome) ==
    IF ExcOf(outcome, TRUE) # "" THEN test_hosted_except(self, "gemini", ExcOf(outcome, TRUE), outcome)
    ELSE LET has == Contains("candidates", outcome.body)
             n   == IF has.ok /\ has.v
                    THEN LET c == GetItem(Ok(outcome.body), "candidates")
                         IN  IF c.ok THEN LenOf(c.v) ELSE c
                    ELSE Ok(0)
         IN  IF ~has.ok THEN test_hosted_except(self, "gemini", has.exc, outcome)
             ELSE IF ~n.ok THEN test_hosted_except(self, "gemini", n.exc, outcome)
             ELSE IF has.v /\ n.v > 0
                  THEN Pair(TRUE, <<"Gemini connected. Model '", self.model, "' is working.">>)
                  ELSE Pair(FALSE, <<"No candidates in response">>)

\* _test_openrouter, up to the first urlopen
test_openrouter(self) ==
    IF self.api_key = ""
    THEN Pair(FALSE, <<"OpenRouter API key is missing.\n\n",
                       "Get your API key from: https://openrouter.ai/keys">>)
    ELSE LET headers == {<<"Authorization", <<"Bearer ", self.api_key>>>>}
         IN  Pending(Request(OpenRouterAuthUrl, NoData, headers, "GET"), "test_openrouter_auth")

\* _test_openrouter, from the return of the GET on
test_openrouter_auth(self, outcome) ==
    IF ExcOf(outcome, TRUE) # ""
    THEN test_hosted_except(self, "openrouter", ExcOf(outcome, TRUE), outcome)
    ELSE LET has == Contains("data", outcome.body)
             payload == [model |-> self.model, messages |-> ProbeMessages,
                         max_tokens |-> ProbeMaxTokens]
             headers == {<<"Content-Type", <<"application/json">>>>,
                         <<"Authorization", <<"Bearer ", self.api_key>>>>,
                         <<"HTTP-Referer", <<"https://github.com/anki-llm-fill">>>>}
         IN  IF ~has.ok THEN test_hosted_except(self, "openrouter", has.exc, outcome)
             ELSE IF ~has.v THEN Pair(FALSE, <<"Invalid OpenRouter API key">>)
             ELSE Pending(Request(API_ENDPOINTS["openrouter"], payload, headers, "POST"),
                          "test_openrouter_chat")

\* _test_openrouter, from the return of the POST on
test_openrouter_chat(self, outcome) ==
    IF ExcOf(outcome, TRUE) # ""
    THEN test_hosted_except(self, "openrouter", ExcOf(outcome, TRUE), outcome)
    ELSE LET has == Contains("choices", outcome.body)
         IN  IF ~has.ok THEN test_hosted_except(self, "openrouter", has.exc, outcome)
             ELSE IF has.v
                  THEN Pair(TRUE, <<"OpenRouter connected. Model '", self.model, "' is working.">>)
                  ELSE Pair(FALSE, <<"Unexpected response from OpenRouter">>)

\* LLMClient.test_connection, up to the first urlopen
test_connection(self) ==
    IF self.api_mode = "gemini" THEN test_gemini(self)
    ELSE IF self.api_mode = "groq" THEN test_groq(self)
    ELSE IF self.api_mode = "openrouter" THEN test_openrouter(self)
    ELSE test_ollama(self)

\* ------------------------------------------------------------------ what the network can answer

\* texts a provider can put in its content field
Pads(w) == {[i \in 1..n |-> w] : n \in 0..MaxPad}
Cores == {<<>>, <<"Y">>, <<"a", " ", "b">>}
Texts == {l \o c \o r : l \in Pads(" "), c \in Cores, r \in Pads("\n")}

\* values found where the text is expected
Leaves == {JStr(t) : t \in Texts} \cup {JNull, JNum(5)}

\* values found where an object or a list is expected
Misshapen == {JNull, JNum(0), JNum(5), JStr(<<>>), JStr(<<"message">>), JList(<<>>), JObj(<<>>)}

OllamaBody(x)  == JObj(<<Member("message", x)>>)
ChoicesBody(x) == JObj(<<Member("choices", x)>>)
GeminiBody(x)  == JObj(<<Member("candidates", x)>>)
Message(x)     == JObj(<<Member("content", x)>>)
Choice(x)      == JObj(<<Member("message", x)>>)
Candidate(x)   == JObj(<<Member("content", x)>>)
Content(x)     == JObj(<<Member("parts", x)>>)
Part(x)        == JObj(<<Member("text", x)>>)

WellFormedBodies ==
    {OllamaBody(Message(x)) : x \in Leaves}
        \cup {ChoicesBody(JList(<<Choice(Message(x))>>)) : x \in Leaves}
        \cup {GeminiBody(JList(<<Candidate(Content(JList(<<Part(x)>>)))>>)) : x \in Leaves}

MalformedBodies ==
    Misshapen
        \cup {JList(<<JStr(<<"message">>)>>), JStr(<<"choices">>), JStr(<<"candidates">>),
              JObj(<<Member("data", JObj(<<>>))>>)}
        \cup {OllamaBody(x) : x \in Misshapen}
        \cup {ChoicesBody(x) : x \in Misshapen}
        \cup {ChoicesBody(JList(<<x>>)) : x \in {JNull, JStr(<<"Y">>), JObj(<<>>)}}
        \cup {ChoicesBody(JList(<<Choice(x)>>)) : x \in {JNull, JStr(<<"Y">>)}}
        \cup {GeminiBody(x) : x \in Misshapen}
        \cup {GeminiBody(JList(<<x>>)) : x \in {JNull, JObj(<<>>)}}
        \cup {GeminiBody(JList(<<Candidate(x)>>)) : x \in {JNull, Content(JList(<<>>)), Content(JNull)}}

Bodies == WellFormedBodies \cup MalformedBodies

StatusCodes == {401, 403, 404, 429, 500}

\* e.reason of an HTTPError
Phrase(c) ==
    CASE c = 401 -> <<"Unauthorized">> [] c = 403 -> <<"Forbidden">>
      [] c = 404 -> <<"Not Found">>    [] c = 429 -> <<"Too Many Requests">>
      [] OTHER   -> <<"Internal Server Error">>

ErrorBodies == {<<>>, <<"invalid_api_key">>, <<"Permission">>, <<"error code: ", "1010">>,
                <<"Permission", " denied: ", "Authentication">>,
                <<"error code: ", "1010", " ", "Permission">>, <<"Cloudflare">>,
                <<"Privacy">>, <<"oops">>}

\* e.reason of a URLError
UrlReasons == {<<"[Errno -2] Name or service not known">>,
               <<"[Errno 111] ", "Connection ", "refused">>,
               <<"timed out">>}

Outcomes ==
    {HttpOk(b) : b \in Bodies}
        \cup {HttpNonJson, SocketTimeout}
        \cup {HttpError(c, Phrase(c), b) : c \in StatusCodes, b \in ErrorBodies}
        \cup {UrlError(r) : r \in UrlReasons}

\* ------------------------------------------------------------------ prompt_builder

\* "{{" + field_name + "}}"
Placeholder(field_name) == "{{" \o field_name \o "}}"

\* str.replace(placeholder, value) on a template given as tokens
RECURSIVE Replace(_, _, _)
Replace(s, placeholder, value) ==
    IF s = <<>> THEN <<>>
    ELSE (IF Head(s) = placeholder THEN value ELSE <<Head(s)>>)
             \o Replace(Tail(s), placeholder, value)

\* the loop of build_prompt over the first n items of note_fields
RECURSIVE build_prompt_loop(_, _, _)
build_prompt_loop(template, note_fields, n) ==
    IF n = 0 THEN template
    ELSE Replace(build_prompt_loop(template, note_fields, n - 1),
                 Placeholder(note_fields[n].k), note_fields[n].x)

\* build_prompt
build_prompt(template, note_fields) ==
    build_prompt_loop(template, note_fields, Len(note_fields))

\* the field names of the note type, in the order of its flds
FieldNames == <<"Front", "Back", "Extra">>

\* get_note_fields_dict: a dict, kept in insertion order
get_note_fields_dict(note) ==
    [i \in 1..Len(FieldNames) |-> Member(FieldNames[i], note[FieldNames[i]])]

\* ------------------------------------------------------------------ card_processor

\* get_llm_client: api_mode is not passed on, so the client has the default
get_llm_client(cfg) ==
    LLMClient(cfg.api_base_url, cfg.model, cfg.api_key, "ollama")

\* d[k] = x on a dict kept in insertion order
DictSet(d, k, x) ==
    IF \E i \in 1..Len(d) : d[i].k = k
    THEN [i \in 1..Len(d) |-> IF d[i].k = k THEN Member(k, x) ELSE d[i]]
    ELSE Append(d, Member(k, x))

\* target.get("overwrite", False)
TargetOverwrite(target) ==
    IF "overwrite" \in DOMAIN target THEN target.overwrite ELSE FALSE

\* the test of the loop body that lets a target field be generated
\* the faulty variant that generates every target, whatever the note holds
EligibleAlways(note, target, overwrite) == TRUE

Eligible(note, target, overwrite) ==
    (overwrite \/ TargetOverwrite(target)) \/ strip(note[target.field_name]) = <<>>

\* index of the first target from index from on that is generated, 0 when none is
FirstEligible(note, target_fields, overwrite, from) ==
    LET hit == {j \in from..Len(target_fields) : Eligible(note, target_fields[j], overwrite)}
    IN  IF hit = {} THEN 0 ELSE SetMin(hit)

NoFrame == [fn |-> "none"]

\* the call the loop body makes to the client, up to its first urlopen
ClientCall(self, cfg, prompt, system_prompt) ==
    IF cfg.api_mode = "openai"
    THEN Raised("AttributeError", <<"'LLMClient' object has no attribute 'generate_openai'">>)
    ELSE generate(self, prompt, system_prompt)

\* generate_fields_for_note from target index from on, up to the next urlopen
\* or to its end: the frame and the state of the client call
FillLoop(fr, self, cfg, from) ==
    LET target_fields == fr.mapping.target_fields
        j == FirstEligible(fr.note, target_fields, fr.overwrite, from)
        prompt == build_prompt(target_fields[j].prompt_template, get_note_fields_dict(fr.note))
        r == ClientCall(self, cfg, prompt, fr.mapping.system_prompt)
    IN  IF j = 0
        THEN [frame |-> [fr EXCEPT !.ret = [kind |-> "return", generated |-> fr.generated]],
              result |-> NoResult, prompt |-> <<>>]
        ELSE IF r.kind = "urlopen"
        THEN [frame |-> [fr EXCEPT !.i = j], result |-> r, prompt |-> prompt]
        ELSE [frame |-> [fr EXCEPT !.i = j, !.ret = r], result |-> r, prompt |-> prompt]

\* faulty variant: the generated text is also written into the note
FillTakenWritesNote(fr, r) ==
    IF r.kind = "text"
    THEN [fr EXCEPT !.generated = DictSet(fr.generated, fr.mapping.target_fields[fr.i].field_name, r.text),
                    !.note = [fr.note EXCEPT ![fr.mapping.target_fields[fr.i].field_name] = r.text]]
    ELSE IF r.kind = "raise" /\ Catches({"LLMError"}, r.exc) THEN fr
    ELSE [fr EXCEPT !.ret = r]

\* the try/except of the loop body, given how the client call ended
FillTaken(fr, r) ==
    IF r.kind = "text"
    THEN [fr EXCEPT !.generated = DictSet(fr.generated, fr.mapping.target_fields[fr.i].field_name, r.text)]
    ELSE IF r.kind = "raise" /\ Catches({"LLMError"}, r.exc) THEN fr
    ELSE [fr EXCEPT !.ret = r]

\* ------------------------------------------------------------------ state

VARIABLES
    config,     \* the add-on configuration (api_mode, api_base_url, api_key, model)
    client,     \* the LLMClient of the call in progress, NoClient when idle
    call,       \* the client method in progress with its arguments, NoCall when idle
    result,     \* where the call stands: blocked in urlopen, returned, raised
    response,   \* what the last urlopen came to, NoResponse before the first
    netCalls,   \* number of urlopen calls made by the call in progress
    sent,       \* the requests passed to urlopen by the call in progress, in order
    frame,      \* the function call in progress on the caller's side, NoFrame when none is
    ops,        \* the background operations of the fill flows, by slot
    colLock,    \* the slot of the operation that holds the collection, NoOwner when free
    notes       \* the fields of the notes of the collection, by note id

vars == <<config, client, call, result, response, netCalls, sent, frame, ops, colLock, notes>>

clientVars == <<config, client, call, result, response, netCalls, sent, frame>>

flowVars == <<ops, colLock, notes>>

\* the slots of the fill operations in flight: two at once
OpIds == {1, 2}

\* the ids of the notes of the collection
NoteIds == {1, 2}

NoOwner == 0

NoOp == [kind |-> "none", pc |-> "none", items |-> <<>>, n |-> 0, t |-> 0,
         overwrite |-> FALSE, generated |-> <<>>, results |-> <<>>, cancel |-> FALSE]

\* the collection at the start: every note has a source text, the notes with
\* an even id have a Back already
InitialNotes ==
    [id \in NoteIds |-> [Front |-> <<"word">>,
                         Back  |-> IF id % 2 = 0 THEN <<"old">> ELSE <<>>,
                         Extra |-> <<>>]]

FlowInit ==
    /\ ops = [f \in OpIds |-> NoOp]
    /\ colLock = NoOwner
    /\ notes = InitialNotes

NoCall == [op |-> "none"]
NoResponse == [kind |-> "none"]

ConfigModes == ApiModes \cup {"openai"}

Configs == [api_mode : ConfigModes, api_base_url : BaseUrls, api_key : ApiKeys, model : {TheModel}]

GenerateOps == {"generate", "generate_groq", "generate_gemini", "generate_openrouter"}

NoRet == [kind |-> "none"]

Idle == call = NoCall /\ frame = NoFrame
Blocked == result.kind = "urlopen"
Finished == frame = NoFrame /\ call # NoCall /\ result.kind \in {"text", "raise", "pair"}
FrameFinished == frame # NoFrame /\ frame.ret.kind # "none"

\* the client method op run up to its first urlopen
StartOf(op, self, prompt, system_prompt) ==
    CASE op = "generate"            -> generate(self, prompt, system_prompt)
      [] op = "generate_groq"       -> generate_groq(self, prompt, system_prompt)
      [] op = "generate_gemini"     -> generate_gemini(self, prompt, system_prompt)
      [] op = "generate_openrouter" -> generate_openrouter(self, prompt, system_prompt)
      [] OTHER                      -> test_connection(self)

\* the code that follows the urlopen of request req, given what it came to
Continue(self, req, k, outcome) ==
    CASE k = "post"                 -> post(self, req.url, outcome, call.op = "generate")
      [] k = "post_gemini"          -> post_gemini(self, req.url, outcome)
      [] k = "post_openrouter"      -> post_openrouter(self, req.url, outcome)
      [] k = "test_ollama_tags"     -> test_ollama_tags(self, outcome)
      [] k = "test_ollama_chat"     -> test_ollama_chat(self, outcome)
      [] k = "test_groq_chat"       -> test_groq_chat(self, outcome)
      [] k = "test_gemini_chat"     -> test_gemini_chat(self, outcome)
      [] k = "test_openrouter_auth" -> test_openrouter_auth(self, outcome)
      [] OTHER                      -> test_openrouter_chat(self, outcome)

Init ==
    /\ config = [api_mode |-> "ollama", api_base_url |-> DefaultBaseUrl,
                 api_key |-> "", model |-> TheModel]
    /\ client = NoClient
    /\ call = NoCall
    /\ result = NoResult
    /\ response = NoResponse
    /\ netCalls = 0
    /\ sent = <<>>
    /\ frame = NoFrame
    /\ FlowInit

\* the settings are saved
Configure(c) ==
    /\ Idle
    /\ config' = c
    /\ UNCHANGED <<client, call, result, response, netCalls, sent, frame>>
    /\ UNCHANGED flowVars

\* a client is built from the settings and one of its methods is called
Invoke(op, system_prompt) ==
    /\ Idle
    /\ LET self == LLMClient(config.api_base_url, config.model, config.api_key, config.api_mode)
           r == StartOf(op, self, ThePrompt, system_prompt)
       IN  /\ client' = self
           /\ call' = [op |-> op, prompt |-> ThePrompt, system_prompt |-> system_prompt]
           /\ result' = r
           /\ netCalls' = IF r.kind = "urlopen" THEN 1 ELSE 0
           /\ sent' = IF r.kind = "urlopen" THEN <<r.req>> ELSE <<>>
    /\ UNCHANGED <<config, response, frame>>
    /\ UNCHANGED flowVars

Generate(op, system_prompt) == op \in GenerateOps /\ Invoke(op, system_prompt)

TestConnection == Invoke("test_connection", <<>>)

\* the urlopen the call is blocked in comes to an outcome and the call runs on
Urlopen(outcome) ==
    /\ frame = NoFrame
    /\ Blocked
    /\ LET r == Continue(client, result.req, result.k, outcome)
       IN  /\ result' = r
           /\ netCalls' = IF r.kind = "urlopen" THEN netCalls + 1 ELSE netCalls
           /\ sent' = IF r.kind = "urlopen" THEN Append(sent, r.req) ELSE sent
    /\ response' = outcome
    /\ UNCHANGED <<config, client, call, frame>>
    /\ UNCHANGED flowVars

\* the caller takes the result; the client is dropped
Return ==
    /\ Finished
    /\ client' = NoClient
    /\ call' = NoCall
    /\ result' = NoResult
    /\ response' = NoResponse
    /\ netCalls' = 0
    /\ sent' = <<>>
    /\ UNCHANGED <<config, frame>>
    /\ UNCHANGED flowVars

Next ==
    \/ \E c \in Configs : Configure(c)
    \/ \E op \in GenerateOps, sp \in SystemPrompts : Generate(op, sp)
    \/ TestConnection
    \/ \E o \in Outcomes : Urlopen(o)
    \/ Return

Spec == Init /\ [][Next]_vars

\* ------------------------------------------------------------------ the caller path

PromptTemplates == {<<"Define ", "{{Front}}">>}

Notes == [Front : {<<>>, <<" ">>, <<"word">>}, Back : {<<>>, <<" ">>, <<"old">>}, Extra : {<<>>}]

TargetSpecs ==
    {[field_name |-> "Back", prompt_template |-> t, overwrite |-> o] :
         t \in PromptTemplates, o \in BOOLEAN}
        \cup {[field_name |-> "Extra", prompt_template |-> t] : t \in PromptTemplates}

Mappings ==
    {[source_field |-> "Front", target_fields |-> ts, system_prompt |-> sp] :
         ts \in UNION {[1..n -> TargetSpecs] : n \in 1..MaxTargets}, sp \in SystemPrompts}

\* what the network answers in the runs of the caller path: one outcome of
\* each kind
FillOutcomes ==
    {HttpOk(OllamaBody(Message(JStr(<<" ", "Y">>)))),
     HttpOk(ChoicesBody(JList(<<Choice(Message(JStr(<<"Y">>)))>>))),
     HttpOk(JNull),
     HttpNonJson,
     HttpError(401, Phrase(401), <<>>),
     UrlError(<<"[Errno 111] ", "Connection ", "refused">>)}

\* the state of the client call after a step of the loop
FillEffect(step) ==
    /\ frame' = step.frame
    /\ IF step.result = NoResult
       THEN UNCHANGED <<call, netCalls, sent>> /\ result' = NoResult
       ELSE /\ call' = [op |-> "generate", prompt |-> step.prompt,
                        system_prompt |-> step.frame.mapping.system_prompt]
            /\ result' = step.result
            /\ netCalls' = IF step.result.kind = "urlopen" THEN 1 ELSE 0
            /\ sent' = IF step.result.kind = "urlopen" THEN <<step.result.req>> ELSE <<>>

\* generate_fields_for_note is called and runs to its first urlopen or its end
GenerateFieldsForNote(note, mapping, overwrite) ==
    /\ Idle
    /\ LET self == get_llm_client(config)
           fr == [fn |-> "generate_fields_for_note", note |-> note, mapping |-> mapping,
                  overwrite |-> overwrite, i |-> 0, generated |-> <<>>, ret |-> NoRet]
       IN  /\ client' = self
           /\ IF strip(note[mapping.source_field]) = <<>>
              THEN /\ frame' = [fr EXCEPT !.ret = [kind |-> "return", generated |-> <<>>]]
                   /\ UNCHANGED <<call, result, netCalls, sent>>
              ELSE FillEffect(FillLoop(fr, self, config, 1))
    /\ UNCHANGED <<config, response>>
    /\ UNCHANGED flowVars

\* the urlopen of the loop body comes to an outcome and the loop runs on
UrlopenFill(outcome) ==
    /\ frame # NoFrame
    /\ Blocked
    /\ LET r == Continue(client, result.req, result.k, outcome)
           fr == FillTaken(frame, r)
       IN  IF fr.ret.kind # "none"
           THEN /\ frame' = fr
                /\ result' = r
                /\ UNCHANGED <<call, netCalls, sent>>
           ELSE LET step == FillLoop(fr, client, config, frame.i + 1)
                IN  IF step.result = NoResult
                    THEN /\ frame' = step.frame
                         /\ result' = r
                         /\ UNCHANGED <<call, netCalls, sent>>
                    ELSE FillEffect(step)
    /\ response' = outcome
    /\ UNCHANGED <<config, client>>
    /\ UNCHANGED flowVars

\* the caller takes the dict, or the exception, of generate_fields_for_note
ReturnFill ==
    /\ FrameFinished
    /\ frame' = NoFrame
    /\ client' = NoClient
    /\ call' = NoCall
    /\ result' = NoResult
    /\ response' = NoResponse
    /\ netCalls' = 0
    /\ sent' = <<>>
    /\ UNCHANGED config
    /\ UNCHANGED flowVars

NextFill ==
    \/ \E c \in Configs : Configure(c)
    \/ \E n \in Notes, m \in Mappings, o \in BOOLEAN : GenerateFieldsForNote(n, m, o)
    \/ \E o \in FillOutcomes : UrlopenFill(o)
    \/ ReturnFill

SpecFill == Init /\ [][NextFill]_vars

\* ------------------------------------------------------------------ properties of the client

HostedGenerateOps == {"generate_groq", "generate_gemini", "generate_openrouter"}

\* the first line of each provider's missing-key message
MissingKeyLines == {"Groq API key is missing.\n\n", "Gemini API key is missing.\n\n",
                    "OpenRouter API key is missing.\n\n"}

IsMissingCredential(msg) == Len(msg) > 0 /\ msg[1] \in MissingKeyLines

\* a message with at least one character
NonEmptyMessage(msg) == \E i \in 1..Len(msg) : msg[i] # ""

\* C1: with an empty api_key, the hosted generation operations raise the
\* missing-credential LLMError and the hosted probes return (False, missing
\* credential), and neither passes a request to urlopen.
C1_MissingCredentialNoNetwork ==
    (call # NoCall /\ client.api_key = "") =>
        /\ call.op \in HostedGenerateOps =>
              /\ result.kind = "raise" /\ result.exc = "LLMError"
              /\ IsMissingCredential(result.msg)
              /\ netCalls = 0 /\ sent = <<>>
        /\ (call.op = "test_connection" /\ client.api_mode \in HostedModes) =>
              /\ result.kind = "pair" /\ ~result.ok
              /\ IsMissingCredential(result.msg)
              /\ netCalls = 0 /\ sent = <<>>

C1_Witness ==
    /\ call # NoCall /\ call.op = "generate_groq" /\ client.api_key = ""
    /\ result.kind = "raise" /\ netCalls = 0

FailureKind(r) ==
    IF r.kind # "raise" THEN "none"
    ELSE IF r.exc # "LLMError" THEN "unclassified"
    ELSE CASE r.msg[1] = "HTTP " /\ r.msg[2] = "401"  -> "Unauthorized"
           [] r.msg[1] = "HTTP " /\ r.msg[2] = "429"  -> "RateLimited"
           [] r.msg[1] = "Connection failed: "        -> "TransportFailure"
           [] OTHER                                   -> "other"

\* C4: a hosted generation operation answers HTTP 401 with the LLMError that
\* names status 401, HTTP 429 with the LLMError that names status 429, and a
\* URLError with the connection-failed LLMError; nothing but LLMError escapes.
C4_ClassifiedHttpFailures ==
    (Finished /\ call.op \in HostedGenerateOps) =>
        /\ (response.kind = "http_error" /\ response.code = 401) =>
              FailureKind(result) = "Unauthorized"
        /\ (response.kind = "http_error" /\ response.code = 429) =>
              FailureKind(result) = "RateLimited"
        /\ response.kind = "url_error" => FailureKind(result) = "TransportFailure"

C4_Witness ==
    /\ Finished /\ call.op = "generate_openrouter"
    /\ response.kind = "http_error" /\ response.code = 429
    /\ FailureKind(result) = "RateLimited"

\* C5: on a 2xx JSON body every generation operation returns text or raises
\* LLMError; no other exception escapes.
C5_MalformedBodyIsLLMError ==
    (Finished /\ call.op \in GenerateOps /\ response.kind = "ok") =>
        \/ result.kind = "text"
        \/ result.kind = "raise" /\ result.exc = "LLMError"

\* the call has passed the credential check of its operation
PassedCredentialCheck == call.op = "generate" \/ client.api_key # ""

\* C6 as stated: a generation call that passes its credential check has made
\* exactly one urlopen call when it ends.
C6_ExactlyOneRequest ==
    (Finished /\ call.op \in GenerateOps /\ PassedCredentialCheck) => netCalls = 1

\* the URL the generation operation op of client self posts to
GenerateUrl(op, self) ==
    CASE op = "generate"        -> self.base_url \o <<"/api/chat">>
      [] op = "generate_gemini" -> API_ENDPOINTS["gemini"] \o <<"/", self.model, ":generateContent">>
      [] op = "generate_groq"   -> API_ENDPOINTS["groq"]
      [] OTHER                  -> API_ENDPOINTS["openrouter"]

\* C6 as amended: a generation call that passes its credential check makes
\* exactly one urlopen call when its URL has a scheme and none when it has not
\* (the Request constructor raises ValueError first); it never makes a second.
C6_OneRequestNoRetry ==
    (call.op \in GenerateOps /\ PassedCredentialCheck) =>
        /\ netCalls = IF HasScheme(GenerateUrl(call.op, client)) THEN 1 ELSE 0
        /\ Len(sent) = netCalls
        /\ (Finished /\ response # NoResponse) => netCalls = 1

C6_Witness ==
    /\ Finished /\ call.op = "generate_groq" /\ client.api_key # ""
    /\ response.kind = "http_error" /\ response.code = 500
    /\ netCalls = 1

\* the body that carries leaf x where generation operation op looks for its text
BodyFor(op, x) ==
    CASE op = "generate"        -> OllamaBody(Message(x))
      [] op = "generate_gemini" -> GeminiBody(JList(<<Candidate(Content(JList(<<Part(x)>>)))>>))
      [] OTHER                  -> ChoicesBody(JList(<<Choice(Message(x))>>))

\* C7: generate_gemini returns the first candidate's text without its
\* surrounding whitespace, and raises the no-candidates LLMError when the
\* body has no candidates key or an empty candidates list.
C7_GeminiCandidates ==
    (Finished /\ call.op = "generate_gemini" /\ response.kind = "ok") =>
        /\ \A l \in Pads(" "), c \in Cores, r \in Pads("\n") :
              response.body = BodyFor("generate_gemini", JStr(l \o c \o r)) =>
                  result = Text(c)
        /\ response.body \in {JObj(<<>>), GeminiBody(JList(<<>>)), OllamaBody(JNull)} =>
              result = Raised("LLMError", <<"No candidates in Gemini response">>)

C7_Witness ==
    /\ Finished /\ call.op = "generate_gemini"
    /\ response = HttpOk(GeminiBody(JList(<<>>)))
    /\ result.kind = "raise" /\ result.exc = "LLMError"

\* C8: the text a generation operation returns is the provider's content
\* field without its leading and trailing whitespace, and neither starts nor
\* ends with whitespace.
C8_ReturnedTextIsStripped ==
    (Finished /\ call.op \in GenerateOps /\ result.kind = "text") =>
        /\ response.kind = "ok"
        /\ \E l \in Pads(" "), c \in Cores, r \in Pads("\n") :
              /\ response.body = BodyFor(call.op, JStr(l \o c \o r))
              /\ result.text = c
        /\ result.text # <<>> =>
              /\ result.text[1] \notin Whitespace
              /\ result.text[Len(result.text)] \notin Whitespace

C8_Witness ==
    /\ Finished /\ call.op = "generate"
    /\ response = HttpOk(OllamaBody(Message(JStr(<<" ", "a", " ", "b", "\n">>))))
    /\ result = Text(<<"a", " ", "b">>)

\* C9: the payload of a generation request has a system message, first in
\* messages (systemInstruction for gemini), exactly when the system prompt is
\* not empty; with an empty one messages is the single user message.
C9_SystemMessageIffSupplied ==
    (call.op \in GenerateOps /\ sent # <<>>) =>
        LET payload == sent[1].data
            user    == [role |-> "user", content |-> call.prompt]
            system  == [role |-> "system", content |-> call.system_prompt]
        IN  IF call.op = "generate_gemini"
            THEN /\ ("systemInstruction" \in DOMAIN payload) <=> (call.system_prompt # <<>>)
                 /\ call.system_prompt # <<>> =>
                       payload.systemInstruction.parts = <<[text |-> call.system_prompt]>>
                 /\ payload.contents = <<[role |-> "user", parts |-> <<[text |-> call.prompt]>>]>>
            ELSE /\ (\E i \in 1..Len(payload.messages) : payload.messages[i].role = "system")
                        <=> (call.system_prompt # <<>>)
                 /\ call.system_prompt # <<>> => payload.messages = <<system, user>>
                 /\ call.system_prompt = <<>> => payload.messages = <<user>>

C9_Witness ==
    /\ call.op = "generate_openrouter" /\ sent # <<>>
    /\ call.system_prompt = <<>>
    /\ Len(sent[1].data.messages) = 1

\* C10: a local-provider client built with an empty base_url has base URL
\* http://localhost:11434; its generation posts to .../api/chat and its probe
\* first fetches .../api/tags.
C10_EmptyBaseUrlDefaultsToLoopback ==
    (call # NoCall /\ client.api_mode = "ollama" /\ config.api_base_url = <<>>) =>
        /\ client.base_url = <<"http://localhost:11434">>
        /\ call.op = "generate" =>
              /\ netCalls = 1
              /\ sent[1].method = "POST"
              /\ sent[1].url = <<"http://localhost:11434", "/api/chat">>
        /\ call.op = "test_connection" =>
              /\ netCalls >= 1
              /\ sent[1].method = "GET"
              /\ sent[1].url = <<"http://localhost:11434", "/api/tags">>

C10_Witness ==
    /\ Blocked /\ call.op = "generate" /\ client.api_mode = "ollama"
    /\ config.api_base_url = <<>>
    /\ sent[1].url = <<"http://localhost:11434", "/api/chat">>

\* ------------------------------------------------------------------ properties of the caller path

\* the generation operation of the provider an api_mode names
ProviderOp(mode) ==
    CASE mode = "groq"       -> "generate_groq"
      [] mode = "gemini"     -> "generate_gemini"
      [] mode = "openrouter" -> "generate_openrouter"
      [] OTHER               -> "generate"

\* the code that parses the response of the provider an api_mode names
ProviderParser(mode) ==
    CASE mode = "gemini"     -> "post_gemini"
      [] mode = "openrouter" -> "post_openrouter"
      [] OTHER               -> "post"

\* C2: a generation that generate_fields_for_note requests is sent to the
\* endpoint of the configured provider, with that provider's request builder
\* and response parser.
C2_DispatchByProvider ==
    (frame # NoFrame /\ Blocked /\ config.api_mode \in ApiModes) =>
        LET mode == config.api_mode
            proper == LLMClient(config.api_base_url, config.model, config.api_key, mode)
        IN  /\ result.req.url = GenerateUrl(ProviderOp(mode), proper)
            /\ result.k = ProviderParser(mode)
            /\ ("messages" \in DOMAIN result.req.data) <=> (mode # "gemini")
            /\ ("options" \in DOMAIN result.req.data) <=> (mode = "ollama")

\* ------------------------------------------------------------------ properties of the probes

\* the failure class of an exchange outcome, "other" when it is in none
ProbeClass(o) ==
    CASE o.kind = "http_error" /\ o.code \in {401, 403} -> "invalid_credential"
      [] o.kind = "http_error" /\ o.code = 404          -> "unknown_model"
      [] o.kind = "http_error" /\ o.code = 429          -> "rate_limited"
      [] o.kind \in {"url_error", "timeout"}            -> "transport"
      [] OTHER                                          -> "other"

\* the leading literal of a message: the text before its first interpolation
MessageForm(msg) == msg[1]

\* the messages that report that the server could not be reached
IsConnectionFailure(msg) ==
    MessageForm(msg) \in {"Cannot connect to Ollama at ", "Connection failed: "}

\* what the probe of client self answers when its generation POST comes to o
ProbeAnswer(self, o) ==
    CASE self.api_mode = "groq"       -> test_groq_chat(self, o)
      [] self.api_mode = "gemini"     -> test_gemini_chat(self, o)
      [] self.api_mode = "openrouter" -> test_openrouter_chat(self, o)
      [] OTHER                        -> test_ollama_chat(self, o)

\* C11: the message of a failed probe tells the failure classes apart: an HTTP
\* error status is never reported as a connection failure, and for one provider
\* two outcomes of different classes (invalid credential, unknown model, rate
\* limited, transport failure) never give the same message form.
C11_FailureClassesDistinct ==
    (Finished /\ call.op = "test_connection" /\ result.kind = "pair") =>
        /\ response.kind = "http_error" => ~IsConnectionFailure(result.msg)
        /\ \A o1, o2 \in Outcomes :
               (/\ ProbeClass(o1) # "other" /\ ProbeClass(o2) # "other"
                /\ ProbeClass(o1) # ProbeClass(o2)) =>
                   MessageForm(ProbeAnswer(client, o1).msg)
                       # MessageForm(ProbeAnswer(client, o2).msg)

\* the 403 markers, as substrings of the body without regard to case
HasMarker(marker, body) == InText(marker, Lower(body))

\* C12: the Groq probe tells a 403 apart by the markers in the body, the first
\* match winning: invalid_api_key or authentication, then permission, then
\* 1010 or cloudflare, and the generic 403 message when there is none; each
\* case returns (False, message).
C12_Groq403FirstMarkerWins ==
    (/\ Finished /\ call.op = "test_connection" /\ client.api_mode = "groq"
     /\ response.kind = "http_error" /\ response.code = 403) =>
        /\ result.kind = "pair" /\ ~result.ok
        /\ MessageForm(result.msg) =
               IF HasMarker("invalid_api_key", response.body)
                      \/ HasMarker("authentication", response.body)
               THEN "Invalid Groq API key.\n\n"
               ELSE IF HasMarker("permission", response.body)
               THEN "API key does not have permission.\n\n"
               ELSE IF HasMarker("1010", response.body) \/ HasMarker("cloudflare", response.body)
               THEN "Groq API Error (403 - Code 1010)\n\n"
               ELSE "Groq API Error (403)\n\n"

C12_Witness ==
    /\ Finished /\ call.op = "test_connection" /\ client.api_mode = "groq"
    /\ response.kind = "http_error" /\ response.code = 403
    /\ response.body = <<"error code: ", "1010", " ", "Permission">>
    /\ result = Pair(FALSE, <<"API key does not have permission.\n\n",
                              "Make sure your API key is active and has access to the model.">>)

\* a key other than the client's, to compare two clients that differ in it
OtherKey == "sk-other"

\* the client of the call in progress with another, non-empty, key
OtherClient == [client EXCEPT !.api_key = OtherKey]

\* text s holds the key as one of its parts
HoldsKey(s, key) == \E i \in 1..Len(s) : s[i] = key

\* two results agree in everything a caller can read in a message
SameMessage(a, b) ==
    /\ a.kind = b.kind
    /\ a.kind \in {"raise", "pair"} => a.msg = b.msg
    /\ a.kind = "raise" => a.exc = b.exc
    /\ a.kind = "urlopen" => (a.k = b.k /\ a.req.url = b.req.url)

HeaderValues(req, name) == {h[2] : h \in {g \in req.headers : g[1] = name}}

\* C14: the generation request of the local provider has no Authorization
\* header when api_key is empty and the header Authorization: Bearer <api_key>
\* when it is not.
C14_LocalBearerIffKey ==
    (call # NoCall /\ call.op = "generate" /\ Len(sent) > 0) =>
        HeaderValues(sent[1], "Authorization") =
            IF client.api_key = "" THEN {} ELSE {<<"Bearer ", client.api_key>>}

\* the top-level key the probe of a provider looks for in the generation response
ExpectedKey(mode) ==
    CASE mode = "gemini" -> "candidates"
      [] mode \in {"groq", "openrouter"} -> "choices"
      [] OTHER -> "message"

\* the URL of the generation POST of the probe of client self
ProbeChatUrl(self) ==
    CASE self.api_mode = "gemini" ->
             API_ENDPOINTS["gemini"] \o <<"/", self.model, ":generateContent">>
      [] self.api_mode \in {"groq", "openrouter"} -> API_ENDPOINTS[self.api_mode]
      [] OTHER -> self.base_url \o <<"/api/chat">>

\* the reachability request comes first and the generation POST follows only
\* a successful answer to it
ProbeOrder ==
    (call # NoCall /\ call.op = "test_connection" /\ Len(sent) > 0) =>
        /\ client.api_mode \notin HostedModes =>
              /\ sent[1].method = "GET" /\ sent[1].url = client.base_url \o <<"/api/tags">>
              /\ Len(sent) <= 2
              /\ Len(sent) = 2 =>
                    /\ sent[2].method = "POST" /\ sent[2].url = ProbeChatUrl(client)
                    /\ Blocked => response.kind \in {"ok", "non_json"}
        /\ client.api_mode = "openrouter" =>
              /\ sent[1].method = "GET" /\ sent[1].url = OpenRouterAuthUrl
              /\ Len(sent) <= 2
              /\ Len(sent) = 2 =>
                    /\ sent[2].method = "POST" /\ sent[2].url = ProbeChatUrl(client)
                    /\ Blocked => (response.kind = "ok" /\ Contains("data", response.body) = Ok(TRUE))
        /\ client.api_mode \in {"groq", "gemini"} =>
              Len(sent) = 1 /\ sent[1].method = "POST" /\ sent[1].url = ProbeChatUrl(client)

\* (True, message) is the answer to a 2xx generation response that is an
\* object with the expected key
TrueOnlyAfterGeneration ==
    (Finished /\ call.op = "test_connection" /\ result.kind = "pair" /\ result.ok) =>
        /\ Len(sent) > 0
        /\ sent[Len(sent)].method = "POST" /\ sent[Len(sent)].url = ProbeChatUrl(client)
        /\ response.kind = "ok"
        /\ response.body.t = "obj" /\ HasKey(response.body, ExpectedKey(client.api_mode))

\* C15: test_connection is a reachability probe followed by a minimal
\* generation: the local probe sends GET /api/tags first and POST /api/chat
\* only after the GET succeeded, the OpenRouter probe sends the GET of the
\* auth-key endpoint first and the chat POST only after a body containing
\* 'data', and every probe returns (True, message) only after the generation
\* POST returned 2xx with the expected top-level key.
C15_ProbeThenGeneration == ProbeOrder /\ TrueOnlyAfterGeneration

\* ------------------------------------------------------------------ build_prompt as a function

\* largest number of keys of a fields mapping
MaxFields == 2

PromptValues == {<<>>, <<"word">>, <<"see ", "{{Back}}">>, <<"{{Missing}}">>}

TemplateInputs ==
    {<<>>, <<"plain">>, <<"Define ", "{{Front}}">>,
     <<"{{Front}}", " / ", "{{Back}}", " / ", "{{Front}}">>,
     <<"{{Missing}}", " ", "{{Extra}}">>}

\* dicts over the field names, in every insertion order
FieldDicts ==
    UNION {{d \in [1..n -> [k : {FieldNames[i] : i \in 1..Len(FieldNames)}, x : PromptValues]] :
                \A i, j \in 1..n : i # j => d[i].k # d[j].k} : n \in 1..MaxFields}

\* build_prompt(template, note_fields) is called
InitPrompt ==
    /\ config = [api_mode |-> "ollama", api_base_url |-> DefaultBaseUrl,
                 api_key |-> "", model |-> TheModel]
    /\ client = NoClient
    /\ call = NoCall
    /\ result = NoResult
    /\ response = NoResponse
    /\ netCalls = 0
    /\ sent = <<>>
    /\ FlowInit
    /\ \E t \in TemplateInputs, d \in FieldDicts :
           frame = [fn |-> "build_prompt", template |-> t, note_fields |-> d]

\* build_prompt runs to its return
BuildPrompt ==
    /\ frame.fn = "build_prompt" /\ result = NoResult
    /\ result' = Text(build_prompt(frame.template, frame.note_fields))
    /\ UNCHANGED <<config, client, call, response, netCalls, sent, frame>>
    /\ UNCHANGED flowVars

NextPrompt == BuildPrompt

SpecPrompt == InitPrompt /\ [][NextPrompt]_vars

\* ------------------------------------------------------------------ properties of build_prompt

\* the keys of a dict
Keys(d) == {d[i].k : i \in 1..Len(d)}

\* d[k]
ValueOf(d, k) == d[CHOOSE i \in 1..Len(d) : d[i].k = k].x

\* the template with each part that is the placeholder of a key replaced by
\* that key's value and every other part kept
RECURSIVE Substituted(_, _)
Substituted(template, d) ==
    IF template = <<>> THEN <<>>
    ELSE LET h == Head(template)
             named == {k \in Keys(d) : Placeholder(k) = h}
         IN  (IF named = {} THEN <<h>> ELSE ValueOf(d, CHOOSE k \in named : TRUE))
                 \o Substituted(Tail(template), d)

\* C16: build_prompt returns, without raising, the template with every
\* {{name}} of a key of fields replaced by that field's value and every other
\* {{name}} left verbatim.
C16_BuildPromptSubstitutes ==
    (frame.fn = "build_prompt" /\ result # NoResult) =>
        result = Text(Substituted(frame.template, frame.note_fields))

\* ------------------------------------------------------------------ should_process_note as a function

ALL_TRIGGERS == <<"mining", "add_cards", "browse", "focus_lost", "toolbar">>

\* None
None == [t |-> "None"]

\* the elements of a list
Elems(l) == {l[i] : i \in 1..Len(l)}

\* mapping.get("triggered_by", ALL_TRIGGERS)
TriggeredBy(mapping) ==
    IF "triggered_by" \in DOMAIN mapping THEN mapping.triggered_by ELSE ALL_TRIGGERS

\* t.get("field_name", "")
TargetFieldName(t) == IF "field_name" \in DOMAIN t THEN t.field_name ELSE ""

\* mapping.get("source_field", "")
SourceField(mapping) == IF "source_field" \in DOMAIN mapping THEN mapping.source_field ELSE ""

\* faulty variant: the trigger is not looked at
should_process_note_any_trigger(note_type, mappings, trigger) ==
    IF note_type = None THEN None
    ELSE IF note_type.name \notin DOMAIN mappings THEN None
    ELSE LET mapping == mappings[note_type.name]
             field_names == Elems(note_type.flds)
         IN  IF SourceField(mapping) \notin field_names THEN None
             ELSE IF \A i \in 1..Len(mapping.target_fields) :
                         TargetFieldName(mapping.target_fields[i]) \notin field_names
             THEN None
             ELSE mapping

\* should_process_note, for the note type of the note and the
\* note_type_mappings of the configuration
should_process_note(note_type, mappings, trigger) ==
    IF note_type = None THEN None
    ELSE IF note_type.name \notin DOMAIN mappings THEN None
    ELSE LET mapping == mappings[note_type.name]
             allowed == TriggeredBy(mapping)
             field_names == Elems(note_type.flds)
             valid_targets == {i \in 1..Len(mapping.target_fields) :
                                  TargetFieldName(mapping.target_fields[i]) \in field_names}
         IN  IF trigger # "" /\ trigger \notin Elems(allowed) THEN None
             ELSE IF SourceField(mapping) \notin field_names THEN None
             ELSE IF valid_targets = {} THEN None
             ELSE mapping

\* largest number of target_fields entries of a mapping given to should_process_note
MaxMatchTargets == 2

NoteTypes == {None, [name |-> "Basic", flds |-> FieldNames],
              [name |-> "Cloze", flds |-> <<"Text">>]}

MatchTargets == {[field_name |-> "Back", prompt_template |-> <<"Define ", "{{Front}}">>],
                 [field_name |-> "Reading", prompt_template |-> <<"Define ", "{{Front}}">>],
                 [prompt_template |-> <<"Define ", "{{Front}}">>]}

MatchTargetLists == UNION {[1..n -> MatchTargets] : n \in 0..MaxMatchTargets}

MatchMappings ==
    {[source_field |-> s, target_fields |-> ts] : s \in {"Front", "Word"}, ts \in MatchTargetLists}
        \cup {[source_field |-> s, target_fields |-> ts, triggered_by |-> tb] :
                  s \in {"Front", "Word"}, ts \in MatchTargetLists,
                  tb \in {<<>>, <<"mining">>, <<"browse", "toolbar">>}}

\* config.get("note_type_mappings", {})
NoteTypeMappings == {<<>>} \cup {[n \in {"Basic"} |-> m] : m \in MatchMappings}

Triggers == {""} \cup Elems(ALL_TRIGGERS)

Value(x) == [kind |-> "value", v |-> x]

\* should_process_note(note, config, trigger) is called
InitMatch ==
    /\ config = [api_mode |-> "ollama", api_base_url |-> DefaultBaseUrl,
                 api_key |-> "", model |-> TheModel]
    /\ client = NoClient
    /\ call = NoCall
    /\ result = NoResult
    /\ response = NoResponse
    /\ netCalls = 0
    /\ sent = <<>>
    /\ FlowInit
    /\ \E nt \in NoteTypes, ms \in NoteTypeMappings, tr \in Triggers :
           frame = [fn |-> "should_process_note", note_type |-> nt,
                    note_type_mappings |-> ms, trigger |-> tr]

\* should_process_note runs to its return
ShouldProcessNote ==
    /\ frame.fn = "should_process_note" /\ result = NoResult
    /\ result' = Value(should_process_note(frame.note_type, frame.note_type_mappings,
                                           frame.trigger))
    /\ UNCHANGED <<config, client, call, response, netCalls, sent, frame>>
    /\ UNCHANGED flowVars

NextMatch == ShouldProcessNote

SpecMatch == InitMatch /\ [][NextMatch]_vars

\* ------------------------------------------------------------------ properties of should_process_note

\* the four conditions under which a note is processed
Processable(nt, ms, tr) ==
    /\ nt # None
    /\ nt.name \in DOMAIN ms
    /\ tr = "" \/ \E i \in 1..Len(TriggeredBy(ms[nt.name])) : TriggeredBy(ms[nt.name])[i] = tr
    /\ \E i \in 1..Len(nt.flds) : nt.flds[i] = SourceField(ms[nt.name])
    /\ \E j \in 1..Len(ms[nt.name].target_fields) : \E i \in 1..Len(nt.flds) :
           nt.flds[i] = TargetFieldName(ms[nt.name].target_fields[j])

\* C19: should_process_note returns the mapping of the note type exactly when
\* the note has a note type whose name is a key of note_type_mappings, the
\* trigger is empty or listed in triggered_by (all five triggers when the
\* mapping has no list), source_field is a field of the note type and at
\* least one target_fields entry names a field of the note type; it returns
\* None in every other case.
C19_ShouldProcessNoteIff ==
    (frame.fn = "should_process_note" /\ result # NoResult) =>
        result = Value(IF Processable(frame.note_type, frame.note_type_mappings, frame.trigger)
                       THEN frame.note_type_mappings[frame.note_type.name]
                       ELSE None)

C19_Witness ==
    /\ frame.fn = "should_process_note" /\ result # NoResult
    /\ frame.note_type # None /\ frame.note_type.name = "Basic"
    /\ frame.trigger = "toolbar"
    /\ "Basic" \in DOMAIN frame.note_type_mappings
    /\ "triggered_by" \notin DOMAIN frame.note_type_mappings["Basic"]
    /\ Len(frame.note_type_mappings["Basic"].target_fields) = 2
    /\ TargetFieldName(frame.note_type_mappings["Basic"].target_fields[1]) = "Reading"
    /\ result = Value(frame.note_type_mappings["Basic"])

\* ------------------------------------------------------------------ properties of generate_fields_for_note

\* C20: generate_fields_for_note does not modify the note: from its call to
\* its return every field of the note keeps its value, whatever the mapping,
\* the configuration, the overwrite flag and the outcome of each LLM call; the
\* generated text is only in the dict it returns.
C20_NoteNotModified ==
    [][(frame.fn = "generate_fields_for_note" /\ frame'.fn = "generate_fields_for_note")
           => frame'.note = frame.note]_vars

C20_Witness ==
    /\ FrameFinished /\ frame.ret.kind = "return"
    /\ frame.note.Back = <<"old">>
    /\ frame.ret.generated = <<Member("Back", <<"Y">>)>>

\* ------------------------------------------------------------------ the fill flows

\* aqt.operations: a QueryOp, with or without .without_collection(), a
\* CollectionOp, and the QThread of the browser bulk fill
QueryOp(without_collection) == [type |-> "QueryOp", without_collection |-> without_collection]
CollectionOp == [type |-> "CollectionOp"]
QThread == [type |-> "QThread"]

\* faulty variant: every background operation takes the collection
UsesCollectionAlways(op) == TRUE

\* whether run_in_background runs the operation with the collection held
UsesCollection(op) ==
    \/ op.type = "CollectionOp"
    \/ op.type = "QueryOp" /\ ~op.without_collection

\* the note type of the notes of the collection
BasicNoteType == [name |-> "Basic", flds |-> FieldNames]

\* the mapping of the configuration the flows run with
FlowMapping ==
    [source_field |-> "Front",
     target_fields |-> <<[field_name |-> "Back", prompt_template |-> <<"Define ", "{{Front}}">>],
                         [field_name |-> "Extra", prompt_template |-> <<"Use ", "{{Front}}">>]>>,
     system_prompt |-> <<>>]

\* config.get("note_type_mappings", {}) of the flows
FlowConfigs == {<<>>, [n \in {"Basic"} |-> FlowMapping]}

\* what one LLM call of a flow comes to: text, an LLMError, another exception
CallOutcomes == {"text", "llm_error", "crash"}

GeneratedText == <<"Y">>

\* the operation that runs the LLM phase of a flow
LlmOp(kind) == IF kind = "bulk" THEN QThread ELSE QueryOp(TRUE)

\* a sorted list of the elements of a set of note ids
RECURSIVE Sorted(_)
Sorted(S) == IF S = {} THEN <<>> ELSE <<SetMin(S)>> \o Sorted(S \ {SetMin(S)})

\* a flow whose LLM phase is handed to run_in_background or to worker.start()
Flow(kind, items, overwrite) ==
    [NoOp EXCEPT !.kind = kind, !.pc = "llm_queued", !.items = items, !.overwrite = overwrite]

\* the LLM phase of operation o from target t of note number n on, where
\* t = 0 stands for the top of the loop body of that note and generated is
\* the dict of that note so far: it runs to the next LLM call or to its end
RECURSIVE RunFrom(_, _, _, _)
RunFrom(o, n, t, generated) ==
    LET targets == FlowMapping.target_fields
    IN  IF n > Len(o.items)
        THEN [o EXCEPT !.pc = "llm_done", !.n = n, !.t = 0, !.generated = <<>>]
        ELSE IF t = 0
        THEN IF o.kind = "bulk" /\ o.cancel
             THEN [o EXCEPT !.pc = "cancelled", !.n = n, !.t = 0, !.generated = <<>>]
             ELSE IF strip(notes[o.items[n]][FlowMapping.source_field]) = <<>>
             THEN RunFrom([o EXCEPT !.results = Append(@, [note |-> o.items[n], generated |-> <<>>])],
                          n + 1, 0, <<>>)
             ELSE RunFrom(o, n, 1, <<>>)
        ELSE IF t > Len(targets)
        THEN RunFrom([o EXCEPT !.results = Append(@, [note |-> o.items[n], generated |-> generated])],
                     n + 1, 0, <<>>)
        ELSE IF Eligible(notes[o.items[n]], targets[t], o.overwrite)
        THEN [o EXCEPT !.pc = "in_request", !.n = n, !.t = t, !.generated = generated]
        ELSE RunFrom(o, n, t + 1, generated)

\* the notes of a result list that have something generated
Filled(results) == {i \in 1..Len(results) : results[i].generated # <<>>}

\* note[field_name] = value for every item of generated
RECURSIVE ApplyGenerated(_, _)
ApplyGenerated(note, generated) ==
    IF generated = <<>> THEN note
    ELSE ApplyGenerated([note EXCEPT ![Head(generated).k] = Head(generated).x], Tail(generated))

\* the notes after the save operation has applied the first n results
RECURSIVE ApplyResults(_, _, _)
ApplyResults(ns, results, n) ==
    IF n = 0 THEN ns
    ELSE LET before == ApplyResults(ns, results, n - 1)
             r == results[n]
         IN  IF r.generated = <<>> THEN before
             ELSE [before EXCEPT ![r.note] = ApplyGenerated(before[r.note], r.generated)]

\* find_notes_with_empty_targets: the notes with an empty target field and a
\* source text, each once
find_notes_with_empty_targets ==
    Sorted({id \in NoteIds :
               /\ \E t \in 1..Len(FlowMapping.target_fields) :
                      notes[id][FlowMapping.target_fields[t].field_name] = <<>>
               /\ strip(notes[id][FlowMapping.source_field]) # <<>>})

\* _run_async_fill(note, trigger), called by on_note_added and, through
\* run_on_main, by on_note_will_be_added
RunAsyncFill(f, id, trigger, ms) ==
    /\ ops[f] = NoOp
    /\ trigger \in {"add_cards", "mining"}
    /\ LET mapping == should_process_note(BasicNoteType, ms, trigger)
       IN  ops' = IF mapping = None THEN ops
                  ELSE [ops EXCEPT ![f] = Flow("auto_fill", <<id>>, FALSE)]
    /\ UNCHANGED <<colLock, notes>>
    /\ UNCHANGED clientVars

\* on_focus_lost(changed, note, field_idx)
OnFocusLost(f, id, field_idx, ms) ==
    /\ ops[f] = NoOp
    /\ LET mapping == should_process_note(BasicNoteType, ms, "focus_lost")
           note == notes[id]
           has_empty == \E t \in 1..Len(mapping.target_fields) :
                            LET target == mapping.target_fields[t]
                            IN  /\ TargetFieldName(target) \in Elems(FieldNames)
                                /\ (TargetOverwrite(target)
                                       \/ strip(note[TargetFieldName(target)]) = <<>>)
       IN  ops' = IF mapping = None THEN ops
                  ELSE IF FieldNames[field_idx] # SourceField(mapping) THEN ops
                  ELSE IF strip(note[SourceField(mapping)]) = <<>> THEN ops
                  ELSE IF ~has_empty THEN ops
                  ELSE [ops EXCEPT ![f] = Flow("focus_lost", <<id>>, FALSE)]
    /\ UNCHANGED <<colLock, notes>>
    /\ UNCHANGED clientVars

\* run_batch_fill(parent, overwrite); its one caller leaves overwrite at False
RunBatchFill(f, overwrite, ms) ==
    /\ ops[f] = NoOp
    /\ LET notes_and_mappings == IF ms = <<>> THEN <<>> ELSE find_notes_with_empty_targets
       IN  ops' = IF notes_and_mappings = <<>> THEN ops
                  ELSE [ops EXCEPT ![f] = Flow("batch", notes_and_mappings, overwrite)]
    /\ UNCHANGED <<colLock, notes>>
    /\ UNCHANGED clientVars

\* _llm_fill_note(editor, overwrite): card_processor has no _is_processing
\* and no reset_processing, so the import at the top of the function raises
LlmFillNote(f, overwrite) ==
    /\ ops[f] = NoOp
    /\ ops' = [ops EXCEPT ![f] = [NoOp EXCEPT !.kind = "toolbar", !.pc = "raised"]]
    /\ UNCHANGED <<colLock, notes>>
    /\ UNCHANGED clientVars

\* _fill_selected_notes(nids, parent)
FillSelectedNotes(f, nids, ms) ==
    /\ ops[f] = NoOp
    /\ LET notes_and_mappings ==
               IF should_process_note(BasicNoteType, ms, "browse") = None THEN <<>>
               ELSE Sorted(nids)
       IN  ops' = IF notes_and_mappings = <<>> THEN ops
                  ELSE [ops EXCEPT ![f] = Flow("bulk", notes_and_mappings, FALSE)]
    /\ UNCHANGED <<colLock, notes>>
    /\ UNCHANGED clientVars

\* the collection after operation f, run with or without it, has got to o
HeldAfter(f, uses, o) ==
    IF ~uses THEN colLock ELSE IF o.pc = "in_request" THEN f ELSE NoOwner

\* the LLM phase of a flow starts in its background thread and runs to its
\* first LLM call or to its end
BeginLlm(f) ==
    /\ ops[f].pc = "llm_queued"
    /\ LET uses == UsesCollection(LlmOp(ops[f].kind))
           o == RunFrom(ops[f], 1, 0, <<>>)
       IN  /\ uses => colLock = NoOwner
           /\ ops' = [ops EXCEPT ![f] = o]
           /\ colLock' = HeldAfter(f, uses, o)
    /\ UNCHANGED notes
    /\ UNCHANGED clientVars

\* the LLM call a flow is blocked in ends and its LLM phase runs on
RequestEnds(f, outcome) ==
    /\ ops[f].pc = "in_request"
    /\ LET o == ops[f]
           field_name == FlowMapping.target_fields[o.t].field_name
           next == CASE outcome = "text" ->
                         RunFrom(o, o.n, o.t + 1, DictSet(o.generated, field_name, GeneratedText))
                     [] outcome = "llm_error" -> RunFrom(o, o.n, o.t + 1, o.generated)
                     [] OTHER -> [o EXCEPT !.pc = "llm_failed"]
       IN  /\ ops' = [ops EXCEPT ![f] = next]
           /\ colLock' = HeldAfter(f, colLock = f, next)
    /\ UNCHANGED notes
    /\ UNCHANGED clientVars

\* the success callback of the LLM phase: on_llm_done, on_done, on_batch_done
OnDone(f) ==
    /\ ops[f].pc = "llm_done"
    /\ ops' = [ops EXCEPT ![f] = IF Filled(ops[f].results) = {} THEN NoOp
                                 ELSE [ops[f] EXCEPT !.pc = "save_queued"]]
    /\ UNCHANGED <<colLock, notes>>
    /\ UNCHANGED clientVars

\* a flow ends without a save: the failure callback, the return of a
\* cancelled worker, the exception of the toolbar handler
OpEnds(f) ==
    /\ ops[f].pc \in {"llm_failed", "cancelled", "raised"}
    /\ ops' = [ops EXCEPT ![f] = NoOp]
    /\ UNCHANGED <<colLock, notes>>
    /\ UNCHANGED clientVars

\* the CollectionOp of a flow gets the collection
BeginSave(f) ==
    /\ ops[f].pc = "save_queued"
    /\ IF UsesCollection(CollectionOp)
       THEN colLock = NoOwner /\ colLock' = f
       ELSE UNCHANGED colLock
    /\ ops' = [ops EXCEPT ![f].pc = "save"]
    /\ UNCHANGED notes
    /\ UNCHANGED clientVars

\* _apply_and_save_op, _apply_and_save_batch_op and the save_op of the bulk
\* fill: the fields are written, the notes updated, the collection released
SaveOp(f) ==
    /\ ops[f].pc = "save"
    /\ notes' = ApplyResults(notes, ops[f].results, Len(ops[f].results))
    /\ colLock' = IF colLock = f THEN NoOwner ELSE colLock
    /\ ops' = [ops EXCEPT ![f] = NoOp]
    /\ UNCHANGED clientVars

\* BulkLLMWorker.cancel, from the Cancel button of the progress dialog
Cancel(f) ==
    /\ ops[f].kind = "bulk" /\ ops[f].pc \in {"llm_queued", "in_request"}
    /\ ~ops[f].cancel
    /\ ops' = [ops EXCEPT ![f].cancel = TRUE]
    /\ UNCHANGED <<colLock, notes>>
    /\ UNCHANGED clientVars

NextFlows ==
    \/ \E f \in OpIds, id \in NoteIds, tr \in {"add_cards", "mining"}, ms \in FlowConfigs :
           RunAsyncFill(f, id, tr, ms)
    \/ \E f \in OpIds, id \in NoteIds, i \in 1..Len(FieldNames), ms \in FlowConfigs :
           OnFocusLost(f, id, i, ms)
    \/ \E f \in OpIds, ms \in FlowConfigs : RunBatchFill(f, FALSE, ms)
    \/ \E f \in OpIds, o \in BOOLEAN : LlmFillNote(f, o)
    \/ \E f \in OpIds, nids \in SUBSET NoteIds, ms \in FlowConfigs : FillSelectedNotes(f, nids, ms)
    \/ \E f \in OpIds : BeginLlm(f)
    \/ \E f \in OpIds, oc \in CallOutcomes : RequestEnds(f, oc)
    \/ \E f \in OpIds : OnDone(f)
    \/ \E f \in OpIds : OpEnds(f)
    \/ \E f \in OpIds : BeginSave(f)
    \/ \E f \in OpIds : SaveOp(f)
    \/ \E f \in OpIds : Cancel(f)

SpecFlows == Init /\ [][NextFlows]_vars

\* ------------------------------------------------------------------ properties of the fill flows

\* no operation is in an LLM call while it holds the collection itself
LlmCallsWithoutCollection ==
    \A f \in OpIds : ops[f].pc = "in_request" => colLock # f

\* no operation is in an LLM call while any operation holds the collection
NoLlmCallWhileCollectionHeld ==
    \A f \in OpIds : ops[f].pc = "in_request" => colLock = NoOwner

\* a step that changes a field of a note is taken by the operation that holds
\* the collection, after the LLM phase of its flow has finished, and changes
\* notes of that flow only
WritesInsideCollectionOp ==
    notes' # notes =>
        \E f \in OpIds :
            /\ colLock = f /\ ops[f].pc = "save"
            /\ ops[f].n > Len(ops[f].items)
            /\ \A id \in NoteIds : notes'[id] # notes[id] => id \in Elems(ops[f].items)

C18_NoRequestAfterCancel ==
    [][\A f \in OpIds :
           (ops[f].kind = "bulk" /\ ops[f].cancel /\ ops'[f].pc = "in_request") =>
               (ops[f].pc = "in_request" /\ ops'[f].n = ops[f].n /\ ops'[f].t = ops[f].t)]_vars

\* ------------------------------------------------------------------ which targets are generated

\* a field value that is empty or holds whitespace only
Blank(s) == \A i \in 1..Len(s) : s[i] \in Whitespace

\* the target may be generated: the overwrite argument, its own overwrite
\* flag, or a blank current value of its field
MayGenerate(fr, t) ==
    \/ fr.overwrite
    \/ ("overwrite" \in DOMAIN t /\ t.overwrite)
    \/ Blank(fr.note[t.field_name])

\* C21: generate_fields_for_note issues a request for a target only if the
\* overwrite argument is true, or the target's own overwrite flag is true, or
\* the note's value of the field is blank; every key of the dict it builds
\* is such a target; and with a blank source field it issues no request and
\* returns the empty dict.
C21_RequestsOnlyForEligibleTargets ==
    (frame # NoFrame /\ frame.fn = "generate_fields_for_note") =>
        LET ts == frame.mapping.target_fields
        IN  /\ Blocked => (frame.i \in 1..Len(ts) /\ MayGenerate(frame, ts[frame.i]))
            /\ \A j \in 1..Len(frame.generated) :
                   \E k \in 1..Len(ts) :
                       /\ ts[k].field_name = frame.generated[j].k
                       /\ MayGenerate(frame, ts[k])
            /\ Blank(frame.note[frame.mapping.source_field]) =>
                   /\ frame.ret = [kind |-> "return", generated |-> <<>>]
                   /\ sent = <<>> /\ netCalls = 0 /\ ~Blocked

\* a request is out for a target whose field holds whitespace only, with
\* neither overwrite set
C21_Witness ==
    /\ frame # NoFrame /\ Blocked
    /\ ~frame.overwrite
    /\ LET t == frame.mapping.target_fields[frame.i]
       IN  /\ t.field_name = "Back" /\ ~t.overwrite
           /\ frame.note.Back = <<" ">>

\* a target holding text is passed over and the dict comes back empty
C21_WitnessSkipped ==
    /\ frame # NoFrame /\ ~frame.overwrite
    /\ frame.note.Front = <<"word">> /\ frame.note.Back = <<"old">>
    /\ frame.mapping.target_fields[1].field_name = "Back"
    /\ ~frame.mapping.target_fields[1].overwrite
    /\ frame.ret = [kind |-> "return", generated |-> <<>>]

\* ------------------------------------------------------------------ failed calls of the fill loop

\* C22: a failed LLM call for one target is skipped and the loop goes on:
\* whatever the request came to (text, HTTP error, transport error,
\* malformed response), generate_fields_for_note returns its dict and does
\* not raise, and the target is in the dict exactly when its call gave text.
C22_FailedCallSkippedSilently ==
    (FrameFinished /\ frame.fn = "generate_fields_for_note" /\ response # NoResponse) =>
        /\ frame.ret.kind = "return"
        /\ HasKey(JObj(frame.ret.generated), frame.mapping.target_fields[frame.i].field_name)
               <=> result.kind = "text"

\* ------------------------------------------------------------------ order of the fields mapping

\* the two dicts hold the same keys with the same values, in any order
SameMapping(d, e) ==
    /\ Keys(d) = Keys(e) /\ Len(d) = Len(e)
    /\ \A k \in Keys(d) : ValueOf(d, k) = ValueOf(e, k)

\* C26: text that build_prompt inserts from a field value is not scanned for
\* placeholders again: the result is the same for every iteration order of
\* the fields mapping, also when a value holds the placeholder of another key.
C26_InsertedTextNotRescanned ==
    (frame.fn = "build_prompt" /\ result.kind = "text") =>
        \A e \in FieldDicts :
            SameMapping(frame.note_fields, e) =>
                build_prompt(frame.template, e) = result.text

\* ------------------------------------------------------------------ the toolbar guard

\* the toolbar fills between the button press and their last callback
ToolbarFillsInProgress ==
    {f \in OpIds : ops[f].kind = "toolbar" /\ ops[f].pc # "raised"}

\* C24: the toolbar fill is non-re-entrant and its guard is reset: at most
\* one toolbar fill is in progress at a time, and a press of LLM Fill or
\* LLM Regen while none is in progress starts the LLM phase of a fill.
C24_ToolbarFillNonReentrant ==
    [][/\ Cardinality(ToolbarFillsInProgress') <= 1
       /\ \A f \in OpIds :
              (ops[f] = NoOp /\ ops'[f].kind = "toolbar" /\ ToolbarFillsInProgress = {}) =>
                  ops'[f].pc = "llm_queued"]_vars

\* ------------------------------------------------------------------ the save operations

\* the calls a save operation makes on the collection
AddCustomUndoEntry == [call |-> "add_custom_undo_entry"]
UpdateNote(id) == [call |-> "update_note", note |-> id]
UpdateNotes(ids) == [call |-> "update_notes", notes |-> ids]
MergeUndoEntries == [call |-> "merge_undo_entries"]

\* faulty variant: every note of the results is put on the update list
ToUpdateAll(results) == [i \in 1..Len(results) |-> results[i].note]

\* to_update at the end of the loop over the results
ToUpdate(results) ==
    LET filled == SelectSeq(results, LAMBDA r : r.generated # <<>>)
    IN  [i \in 1..Len(filled) |-> filled[i].note]

\* _apply_and_save_batch_op(col, results) and the save_op of the bulk fill:
\* the notes afterwards and the calls made on the collection, in order
apply_and_save_batch_op(ns, results) ==
    LET to_update == ToUpdate(results)
    IN  [notes |-> ApplyResults(ns, results, Len(results)),
         calls |-> <<AddCustomUndoEntry>>
                       \o (IF to_update # <<>> THEN <<UpdateNotes(to_update)>> ELSE <<>>)
                       \o <<MergeUndoEntries>>]

\* _apply_and_save_op(col, note, generated)
apply_and_save_op(ns, note, generated) ==
    [notes |-> IF generated # <<>>
               THEN [ns EXCEPT ![note] = ApplyGenerated(ns[note], generated)] ELSE ns,
     calls |-> <<AddCustomUndoEntry>>
                   \o (IF generated # <<>> THEN <<UpdateNote(note)>> ELSE <<>>)
                   \o <<MergeUndoEntries>>]

SaveFunctions == {"_apply_and_save_batch_op", "save_op"}

\* what generate_fields_for_note gave for one note
GeneratedDicts ==
    {<<>>, <<Member("Back", GeneratedText)>>, <<Member("Extra", <<"Z">>)>>,
     <<Member("Back", GeneratedText), Member("Extra", <<"Z">>)>>}

\* result lists over distinct notes, in every order
ResultLists ==
    UNION {{rs \in [1..n -> [note : NoteIds, generated : GeneratedDicts]] :
                \A i, j \in 1..n : i # j => rs[i].note # rs[j].note} :
           n \in 0..Cardinality(NoteIds)}

\* a save operation is about to run on the collection
InitSave ==
    /\ config = [api_mode |-> "ollama", api_base_url |-> DefaultBaseUrl,
                 api_key |-> "", model |-> TheModel]
    /\ client = NoClient
    /\ call = NoCall
    /\ result = NoResult
    /\ response = NoResponse
    /\ netCalls = 0
    /\ sent = <<>>
    /\ FlowInit
    /\ \/ \E fn \in SaveFunctions, rs \in ResultLists : frame = [fn |-> fn, results |-> rs]
       \/ \E id \in NoteIds, g \in GeneratedDicts :
              frame = [fn |-> "_apply_and_save_op", note |-> id, generated |-> g]

\* the save operation runs to its return
ApplyAndSaveBatchOp ==
    /\ frame.fn \in SaveFunctions /\ result = NoResult
    /\ LET out == apply_and_save_batch_op(notes, frame.results)
       IN  /\ notes' = out.notes
           /\ result' = [kind |-> "saved", calls |-> out.calls]
    /\ UNCHANGED <<config, client, call, response, netCalls, sent, frame, ops, colLock>>

\* the save operation of one note runs to its return
ApplyAndSaveOp ==
    /\ frame.fn = "_apply_and_save_op" /\ result = NoResult
    /\ LET out == apply_and_save_op(notes, frame.note, frame.generated)
       IN  /\ notes' = out.notes
           /\ result' = [kind |-> "saved", calls |-> out.calls]
    /\ UNCHANGED <<config, client, call, response, netCalls, sent, frame, ops, colLock>>

NextSave == ApplyAndSaveBatchOp \/ ApplyAndSaveOp

SpecSave == InitSave /\ [][NextSave]_vars

\* the notes of a result list with something generated
FilledNotes(rs) == {rs[i].note : i \in {j \in 1..Len(rs) : rs[j].generated # <<>>}}

\* the positions of the calls of one kind in a call log
CallsOf(calls, name) == {i \in 1..Len(calls) : calls[i].call = name}

\* C23: a batch save writes fields only for the notes whose generated dict is
\* non-empty, calls update_notes at most once and with exactly those notes,
\* and makes all of it between one add_custom_undo_entry and one
\* merge_undo_entries; notes with an empty generated dict are left untouched.
C23_BatchSaveOneUndoStep ==
    (frame.fn \in SaveFunctions /\ result.kind = "saved") =>
        LET calls == result.calls
            filled == FilledNotes(frame.results)
            updates == CallsOf(calls, "update_notes")
        IN  /\ CallsOf(calls, "add_custom_undo_entry") = {1}
            /\ CallsOf(calls, "merge_undo_entries") = {Len(calls)}
            /\ Cardinality(updates) <= 1
            /\ updates = {} <=> filled = {}
            /\ \A i \in updates :
                   /\ {calls[i].notes[j] : j \in 1..Len(calls[i].notes)} = filled
                   /\ Len(calls[i].notes) = Cardinality(filled)
            /\ \A id \in NoteIds \ filled : notes[id] = InitialNotes[id]
            /\ \A i \in 1..Len(frame.results) :
                   \A j \in 1..Len(frame.results[i].generated) :
                       notes[frame.results[i].note][frame.results[i].generated[j].k]
                           = frame.results[i].generated[j].x

\* a batch of two notes, one with nothing generated, has been saved
C23_Witness ==
    /\ frame.fn = "_apply_and_save_batch_op" /\ result.kind = "saved"
    /\ Len(frame.results) = 2
    /\ frame.results[1].generated = <<>>
    /\ frame.results[2].generated # <<>>
    /\ Len(result.calls) = 3

\* ------------------------------------------------------------------ the settings dialog: connection tab

\* the items of the API Mode selector, first one selected at construction
DialogModes == <<"ollama", "groq", "gemini", "openrouter">>

DialogDefaultModel == <<"llama3.2">>

\* d[key] = value on a dict given as a function
SetKey(d, key, value) == [k \in DOMAIN d \cup {key} |-> IF k = key THEN value ELSE d[k]]

\* _save_current_api_settings: the three line edits, stripped, are stored
\* under the mode the selector shows
save_current_api_settings(d) ==
    IF d.mode = "" THEN d
    ELSE [d EXCEPT !.api_settings =
              SetKey(@, d.mode, [base_url |-> strip(d.base_url),
                                 api_key  |-> strip(d.api_key),
                                 model    |-> strip(d.model)])]

\* _on_api_mode_changed(api_mode): d.mode is what the selector shows when the
\* slot runs
on_api_mode_changed(d, api_mode) ==
    LET d1 == save_current_api_settings(d)
        has == api_mode \in DOMAIN d1.api_settings
    IN  IF api_mode = "ollama"
        THEN [d1 EXCEPT !.base_url = IF has THEN d1.api_settings[api_mode].base_url
                                     ELSE DefaultBaseUrl,
                        !.model    = IF has THEN d1.api_settings[api_mode].model
                                     ELSE DialogDefaultModel,
                        !.api_key  = IF has THEN d1.api_settings[api_mode].api_key ELSE <<>>]
        ELSE [d1 EXCEPT !.base_url = <<>>,
                        !.api_key  = IF has THEN d1.api_settings[api_mode].api_key ELSE <<>>,
                        !.model    = IF has THEN d1.api_settings[api_mode].model ELSE <<>>]

\* QComboBox.setCurrentText / a selection by the user: the selector shows the
\* new item, then currentTextChanged calls the slot
set_current_text(d, api_mode) ==
    IF api_mode = d.mode \/ api_mode \notin Elems(DialogModes) THEN d
    ELSE on_api_mode_changed([d EXCEPT !.mode = api_mode], api_mode)

\* SettingsDialog.__init__ with _load_config, for the stored configuration c
load_config(c) ==
    LET d0 == [fn |-> "SettingsDialog", mode |-> DialogModes[1],
               base_url |-> <<>>, api_key |-> <<>>, model |-> <<>>,
               api_settings |-> SetKey(<<>>, c.api_mode,
                                       [base_url |-> c.api_base_url, api_key |-> c.api_key,
                                        model |-> c.model])]
        d1 == set_current_text(d0, c.api_mode)
        d2 == [d1 EXCEPT !.base_url = c.api_base_url, !.api_key = c.api_key,
                         !.model = c.model]
    IN  on_api_mode_changed(d2, c.api_mode)

\* _save_all_settings: the connection keys written to the configuration
save_all_settings(c, d) ==
    LET d1 == save_current_api_settings(d)
        saved == d1.api_settings[d1.mode]
    IN  [c EXCEPT !.api_base_url = saved.base_url, !.api_key = saved.api_key,
                  !.model = saved.model, !.api_mode = d1.mode]

\* the stored configurations the dialog is opened on; texts are token sequences
DialogConfigs ==
    {[api_mode |-> "ollama", api_base_url |-> DefaultBaseUrl, api_key |-> <<>>,
      model |-> DialogDefaultModel],
     [api_mode |-> "groq", api_base_url |-> <<>>, api_key |-> <<"gsk-key">>,
      model |-> <<"llama-3.3">>]}

\* what the user types into the line edits
TypedTexts ==
    [base_url |-> {<<"http://", "host:1234">>},
     api_key  |-> {<<"sk-secret", " ">>},
     model    |-> {<<"m1">>}]

InitDialog ==
    /\ config \in DialogConfigs
    /\ client = NoClient
    /\ call = NoCall
    /\ result = NoResult
    /\ response = NoResponse
    /\ netCalls = 0
    /\ sent = <<>>
    /\ FlowInit
    /\ frame = NoFrame

dialogUnchanged == <<client, call, result, response, netCalls, sent, ops, colLock, notes>>

\* the settings dialog is opened
OpenSettings ==
    /\ frame = NoFrame
    /\ frame' = load_config(config)
    /\ UNCHANGED <<config, dialogUnchanged>>

\* the user types into one of the line edits; the base URL edit is disabled
\* for the hosted modes
EditText(field, text) ==
    /\ frame # NoFrame
    /\ field = "base_url" => frame.mode = "ollama"
    /\ frame' = [frame EXCEPT ![field] = text]
    /\ UNCHANGED <<config, dialogUnchanged>>

\* the user picks another item of the API Mode selector
SelectApiMode(api_mode) ==
    /\ frame # NoFrame
    /\ api_mode # frame.mode
    /\ frame' = set_current_text(frame, api_mode)
    /\ UNCHANGED <<config, dialogUnchanged>>

\* Save: accept() writes the configuration and the dialog closes
Accept ==
    /\ frame # NoFrame
    /\ config' = save_all_settings(config, frame)
    /\ frame' = NoFrame
    /\ UNCHANGED dialogUnchanged

\* Cancel: reject() closes the dialog and writes nothing
Reject ==
    /\ frame # NoFrame
    /\ frame' = NoFrame
    /\ UNCHANGED <<config, dialogUnchanged>>

NextDialog ==
    \/ OpenSettings
    \/ \E field \in DOMAIN TypedTexts : \E text \in TypedTexts[field] : EditText(field, text)
    \/ \E i \in 1..Len(DialogModes) : SelectApiMode(DialogModes[i])
    \/ Accept
    \/ Reject

SpecDialog == InitDialog /\ [][NextDialog]_vars

\* what the dialog holds for a mode: its stored entry, else nothing
StoredFor(d, mode, key) ==
    IF mode \in DOMAIN d.api_settings THEN d.api_settings[mode][key] ELSE <<>>

\* the model the dialog holds for a mode: its stored one, else the default
OwnModel(d, mode) ==
    IF mode \in DOMAIN d.api_settings THEN d.api_settings[mode].model
    ELSE IF mode = "ollama" THEN DialogDefaultModel ELSE <<>>

\* C25: the dialog keeps the connection settings per API mode: a switch of
\* the selector from A to B stores what was edited under A as A's settings,
\* shows B's own API key and model and leaves B's stored settings as they
\* were; Save persists the API key and the model shown for the selected mode.
C25_SettingsPerApiMode ==
    [][/\ (frame # NoFrame /\ frame' # NoFrame /\ frame'.mode # frame.mode) =>
              /\ StoredFor(frame', frame.mode, "api_key") = strip(frame.api_key)
              /\ StoredFor(frame', frame.mode, "model") = strip(frame.model)
              /\ frame'.api_key = StoredFor(frame, frame'.mode, "api_key")
              /\ frame'.model = OwnModel(frame, frame'.mode)
              /\ frame'.mode \in DOMAIN frame'.api_settings =>
                     /\ frame'.mode \in DOMAIN frame.api_settings
                     /\ frame'.api_settings[frame'.mode] = frame.api_settings[frame'.mode]
       /\ (frame # NoFrame /\ frame' = NoFrame /\ config' # config) =>
              /\ config'.api_mode = frame.mode
              /\ config'.api_key = strip(frame.api_key)
              /\ config'.model = strip(frame.model)]_vars

\* ------------------------------------------------------------------ the settings dialog: mappings tab

\* the note types of the collection, by name, with their field names
DialogNoteTypes == [Basic |-> FieldNames, Cloze |-> <<"Text">>]

\* del d[key]
DelKey(d, key) == [k \in DOMAIN d \ {key} |-> d[k]]

\* the mapping _add_mapping_for_current_type stores for a note type with
\* these fields
NewMapping(fields) ==
    [source_fields |-> <<fields[1]>>,
     system_prompt |-> <<"You are a helpful assistant that generates Anki flashcard content.">>,
     triggered_by  |-> ALL_TRIGGERS,
     target_fields |-> <<[field_name |-> fields[2],
                          prompt_template |-> <<"Generate content for the field based on: ",
                                                Placeholder(fields[1])>>,
                          overwrite |-> FALSE]>>]

\* _add_mapping_for_current_type
add_mapping_for_current_type(mappings, note_type_name) ==
    LET fields == DialogNoteTypes[note_type_name]
    IN  IF note_type_name \in DOMAIN mappings THEN mappings
        ELSE IF Len(fields) < 2 THEN mappings
        ELSE SetKey(mappings, note_type_name, NewMapping(fields))

\* _update_source_fields(note_type_name, fields)
update_source_fields(mappings, note_type_name, fields) ==
    IF note_type_name \notin DOMAIN mappings THEN mappings
    ELSE [mappings EXCEPT ![note_type_name] =
              DelKey(SetKey(@, "source_fields", fields), "source_field")]

\* _update_triggers(note_type_name, trigger_id, enabled)
update_triggers(mappings, note_type_name, trigger_id, enabled) ==
    IF note_type_name \notin DOMAIN mappings THEN mappings
    ELSE LET m == mappings[note_type_name]
             triggers == TriggeredBy(m)
             now == IF enabled /\ trigger_id \notin Elems(triggers)
                    THEN Append(triggers, trigger_id)
                    ELSE IF ~enabled
                    THEN SelectSeq(triggers, LAMBDA t : t # trigger_id)
                    ELSE triggers
         IN  [mappings EXCEPT ![note_type_name] = SetKey(m, "triggered_by", now)]

\* mapping["source_field"] at the top of generate_fields_for_note
ReadSourceField(mapping) ==
    IF "source_field" \in DOMAIN mapping THEN Value(mapping.source_field)
    ELSE Raised("KeyError", <<"'source_field'">>)

\* a mapping written by hand in the old format
LegacyMapping ==
    [source_field |-> "Front",
     target_fields |-> <<[field_name |-> "Back", prompt_template |-> <<"Define ", "{{Front}}">>]>>]

\* the selections of the source fields box: the checked fields, in field order
SourceSelections == {<<>>, <<"Front">>, <<"Extra">>, <<"Front", "Extra">>}

\* the trigger boxes that are toggled
ToggledTriggers == {"toolbar", "mining"}

InitMappings ==
    /\ config \in {[note_type_mappings |-> <<>>],
                   [note_type_mappings |-> [Basic |-> LegacyMapping]]}
    /\ client = NoClient
    /\ call = NoCall
    /\ result = NoResult
    /\ response = NoResponse
    /\ netCalls = 0
    /\ sent = <<>>
    /\ FlowInit
    /\ frame = NoFrame

\* the settings dialog is opened on the stored mappings
OpenMappings(note_type_name) ==
    /\ frame = NoFrame
    /\ frame' = [fn |-> "SettingsDialog", note_type |-> note_type_name,
                 note_type_mappings |-> config.note_type_mappings]
    /\ result' = NoResult
    /\ UNCHANGED <<config, client, call, response, netCalls, sent, ops, colLock, notes>>

\* the Add Mapping button
AddMapping ==
    /\ frame # NoFrame
    /\ frame' = [frame EXCEPT !.note_type_mappings =
                     add_mapping_for_current_type(@, frame.note_type)]
    /\ UNCHANGED <<config, dialogUnchanged>>

\* the selection of the source fields box changes
ChangeSourceFields(fields) ==
    /\ frame # NoFrame
    /\ frame.note_type \in DOMAIN frame.note_type_mappings
    /\ Elems(fields) \subseteq Elems(DialogNoteTypes[frame.note_type])
    /\ frame' = [frame EXCEPT !.note_type_mappings =
                     update_source_fields(@, frame.note_type, fields)]
    /\ UNCHANGED <<config, dialogUnchanged>>

\* one of the trigger boxes is toggled
ToggleTrigger(trigger_id) ==
    /\ frame # NoFrame
    /\ frame.note_type \in DOMAIN frame.note_type_mappings
    /\ LET enabled == trigger_id \notin Elems(TriggeredBy(frame.note_type_mappings[frame.note_type]))
       IN  frame' = [frame EXCEPT !.note_type_mappings =
                         update_triggers(@, frame.note_type, trigger_id, enabled)]
    /\ UNCHANGED <<config, dialogUnchanged>>

\* Save on the mappings: the configuration is written and the dialog closes
AcceptMappings ==
    /\ frame # NoFrame
    /\ config' = [config EXCEPT !.note_type_mappings = frame.note_type_mappings]
    /\ frame' = NoFrame
    /\ UNCHANGED dialogUnchanged

\* a trigger fires for a Basic note: should_process_note, and the read of the
\* source field that generate_fields_for_note starts with
ProcessNote(trigger) ==
    /\ frame = NoFrame /\ result = NoResult
    /\ LET mapping == should_process_note(BasicNoteType, config.note_type_mappings, trigger)
       IN  result' = [kind |-> "processed", trigger |-> trigger, mapping |-> mapping,
                      source_field |-> IF mapping = None THEN NoRet
                                       ELSE ReadSourceField(mapping)]
    /\ UNCHANGED <<config, client, call, response, netCalls, sent, frame, ops, colLock, notes>>

NextMappings ==
    \/ \E nt \in DOMAIN DialogNoteTypes : OpenMappings(nt)
    \/ AddMapping
    \/ \E fields \in SourceSelections : ChangeSourceFields(fields)
    \/ \E t \in ToggledTriggers : ToggleTrigger(t)
    \/ AcceptMappings
    \/ \E t \in Elems(ALL_TRIGGERS) : ProcessNote(t)

SpecMappings == InitMappings /\ [][NextMappings]_vars

\* the stored Basic mapping has its source selection from the dialog, names
\* fields of the note type only, has a target that is a field of the note
\* type, and has the trigger enabled
DialogMappingFor(ms, trigger) ==
    /\ "Basic" \in DOMAIN ms
    /\ "source_fields" \in DOMAIN ms.Basic
    /\ ms.Basic.source_fields # <<>>
    /\ Elems(ms.Basic.source_fields) \subseteq Elems(FieldNames)
    /\ \E i \in 1..Len(ms.Basic.target_fields) :
           ms.Basic.target_fields[i].field_name \in Elems(FieldNames)
    /\ trigger \in Elems(TriggeredBy(ms.Basic))

\* C27: a mapping created with Add Mapping, or whose source selection was
\* changed in the dialog, and then saved is accepted by the processor: with
\* the selected source field and a valid target present and the trigger
\* enabled, should_process_note returns the mapping and not None, and
\* generate_fields_for_note can read its source field.
C27_DialogMappingAccepted ==
    (result.kind = "processed" /\ DialogMappingFor(config.note_type_mappings, result.trigger)) =>
        /\ result.mapping = config.note_type_mappings.Basic
        /\ result.source_field.kind = "value"

====
